---- MODULE Spec2Model ----
(***************************************************************************)
(* Document-to-chunk pipeline of the Financial RAG chatbot:                *)
(*   backend/ingestion/chunking.py      (chunk_document)                   *)
(*   backend/ingestion/index_builder.py (index_documents)                  *)
(*   backend/vectorstore/chroma_store.py, backend/app/services/retriever.py*)
(*   scripts/build_index.py             (load_documents_for_ticker)        *)
(*                                                                         *)
(* A Python str is a sequence of code points (integers); a value of a      *)
(* dynamically typed slot (a metadata value, an Optional field) is a       *)
(* tagged tuple <<"str", s>>, <<"int", i>>, <<"list", l>> or <<"None">>.   *)
(***************************************************************************)
EXTENDS Integers, Sequences, FiniteSets, TLC

(***************************************************************************)
(* Python values                                                           *)
(***************************************************************************)
PyNone == <<"None">>
PyStr(s) == <<"str", s>>
PyInt(i) == <<"int", i>>
PyList(l) == <<"list", l>>

\* the code points the model's texts are written in
LF == 10
SPACE == 32
BANG == 33
COMMA == 44
DOT == 46
SEMI == 59
QUESTION == 63
UNDERSCORE == 95

\* the characters str.split() with no argument treats as whitespace (ASCII)
Whitespace == {9, 10, 11, 12, 13, 28, 29, 30, 31, 32}

Min(a, b) == IF a < b THEN a ELSE b
Max(a, b) == IF a > b THEN a ELSE b

\* the members of S within lo..hi, ascending
RECURSIVE Ascending(_, _, _)
Ascending(S, lo, hi) ==
    IF lo > hi THEN <<>>
    ELSE IF lo = hi THEN (IF lo \in S THEN <<lo>> ELSE <<>>)
    ELSE LET mid == (lo + hi) \div 2
         IN  Ascending(S, lo, mid) \o Ascending(S, mid + 1, hi)

\* "".join(parts[lo..hi])
RECURSIVE Concat(_, _, _)
Concat(parts, lo, hi) ==
    IF lo > hi THEN <<>>
    ELSE IF lo = hi THEN parts[lo]
    ELSE LET mid == (lo + hi) \div 2
         IN  Concat(parts, lo, mid) \o Concat(parts, mid + 1, hi)

\* sep.join(parts[lo..hi])
RECURSIVE JoinRange(_, _, _, _)
JoinRange(parts, sep, lo, hi) ==
    IF lo > hi THEN <<>>
    ELSE IF lo = hi THEN parts[lo]
    ELSE LET mid == (lo + hi) \div 2
         IN  JoinRange(parts, sep, lo, mid) \o sep \o JoinRange(parts, sep, mid + 1, hi)

\* str.split(): the maximal runs of non-whitespace characters, in order
str_split(t) ==
    LET n == Len(t)
        starts == Ascending({i \in 1..n : t[i] \notin Whitespace
                                /\ (i = 1 \/ t[i - 1] \in Whitespace)}, 1, n)
        ends == Ascending({i \in 1..n : t[i] \notin Whitespace
                                /\ (i = n \/ t[i + 1] \in Whitespace)}, 1, n)
    IN  [k \in 1..Len(starts) |-> SubSeq(t, starts[k], ends[k])]

\* len(t.split()), the length_function chunk_document gives the splitter
length_function(t) ==
    Cardinality({i \in 1..Len(t) : t[i] \notin Whitespace
                                /\ (i = 1 \/ t[i - 1] \in Whitespace)})

\* str.strip()
str_strip(t) ==
    LET ink == {i \in 1..Len(t) : t[i] \notin Whitespace}
    IN  IF ink = {} THEN <<>>
        ELSE SubSeq(t, CHOOSE i \in ink : \A j \in ink : i <= j,
                       CHOOSE i \in ink : \A j \in ink : i >= j)

\* str(n) for n >= 0
RECURSIVE str_int(_)
str_int(n) == IF n < 10 THEN <<48 + n>> ELSE str_int(n \div 10) \o <<48 + (n % 10)>>

\* str.lower() on ASCII
str_lower(s) == [i \in 1..Len(s) |-> IF s[i] >= 65 /\ s[i] <= 90 THEN s[i] + 32 ELSE s[i]]

\* v or ""
OrEmpty(v) == IF v = PyNone \/ v = PyStr(<<>>) THEN PyStr(<<>>) ELSE v

(***************************************************************************)
(* RecursiveCharacterTextSplitter(chunk_size, chunk_overlap, separators,   *)
(* length_function), keep_separator and strip_whitespace at their defaults *)
(***************************************************************************)
\* ChunkingConfig.__post_init__: the default separators
separators ==
    << <<LF, LF>>, <<LF>>, <<DOT, SPACE>>, <<BANG, SPACE>>, <<QUESTION, SPACE>>,
       <<SEMI, SPACE>>, <<COMMA, SPACE>>, <<SPACE>>, <<>> >>

\* re.search(re.escape(sep), text) matches at position i
MatchAt(t, sep, i) ==
    /\ i + Len(sep) - 1 <= Len(t)
    /\ \A j \in 1..Len(sep) : t[i + j - 1] = sep[j]

re_search(sep, t) == \E i \in 1..Len(t) : MatchAt(t, sep, i)

\* re.split: the leftmost non-overlapping matches
RECURSIVE IsMatchStart(_, _, _)
IsMatchStart(t, sep, i) ==
    /\ MatchAt(t, sep, i)
    /\ \A j \in Max(1, i - Len(sep) + 1)..(i - 1) : ~IsMatchStart(t, sep, j)

\* _split_text_with_regex(text, separator, keep_separator=True): every piece
\* after the first starts with the separator; empty pieces are dropped
_split_text_with_regex(t, sep) ==
    IF sep = <<>> THEN [i \in 1..Len(t) |-> <<t[i]>>]
    ELSE LET n == Len(t)
             m == Ascending({i \in 1..n : IsMatchStart(t, sep, i)}, 1, n)
             k == Len(m)
             head == IF k = 0 THEN t ELSE SubSeq(t, 1, m[1] - 1)
             rest == [j \in 1..k |->
                        SubSeq(t, m[j], IF j < k THEN m[j + 1] - 1 ELSE n)]
         IN  (IF head = <<>> THEN <<>> ELSE <<head>>) \o rest

\* _join_docs with separator "" and strip_whitespace: None for an empty result
_join_docs(docs) == str_strip(Concat(docs, 1, Len(docs)))

\* _merge_splits: the while loop that drops pieces from the front of
\* current_doc, run for at most `fuel` iterations (fuel = len(current_doc))
RECURSIVE PopLoop(_, _, _, _, _)
PopLoop(st, _len, chunk_size, chunk_overlap, fuel) ==
    IF fuel <= 0 THEN st
    ELSE IF fuel = 1 THEN
        IF /\ Len(st.current_doc) > 0
           /\ \/ st.total > chunk_overlap
              \/ (st.total + _len > chunk_size /\ st.total > 0)
        THEN [st EXCEPT !.total = st.total - length_function(st.current_doc[1]),
                        !.current_doc = Tail(st.current_doc)]
        ELSE st
    ELSE LET half == fuel \div 2
             first == PopLoop(st, _len, chunk_size, chunk_overlap, half)
         IN  IF Len(first.current_doc) = 0 THEN first
             ELSE PopLoop(first, _len, chunk_size, chunk_overlap, fuel - half)

\* _merge_splits: one iteration of `for d in splits`
MergeStep(st, d, chunk_size, chunk_overlap) ==
    LET _len == length_function(d)
        flushed ==
            IF st.total + _len > chunk_size /\ Len(st.current_doc) > 0
            THEN LET doc == _join_docs(st.current_doc)
                     st1 == [st EXCEPT !.docs = IF doc = <<>> THEN st.docs
                                                ELSE Append(st.docs, doc)]
                 IN  PopLoop(st1, _len, chunk_size, chunk_overlap, Len(st.current_doc))
            ELSE st
    IN  [flushed EXCEPT !.current_doc = Append(flushed.current_doc, d),
                        !.total = flushed.total + _len]

RECURSIVE MergeLoop(_, _, _, _, _, _)
MergeLoop(st, splits, lo, hi, chunk_size, chunk_overlap) ==
    IF lo > hi THEN st
    ELSE IF lo = hi THEN MergeStep(st, splits[lo], chunk_size, chunk_overlap)
    ELSE LET mid == (lo + hi) \div 2
             first == MergeLoop(st, splits, lo, mid, chunk_size, chunk_overlap)
         IN  IF Len(first.current_doc) = 0 THEN first   \* never: a step appends
             ELSE MergeLoop(first, splits, mid + 1, hi, chunk_size, chunk_overlap)

\* _merge_splits(splits, separator="")
_merge_splits(splits, chunk_size, chunk_overlap) ==
    LET st == MergeLoop([docs |-> <<>>, current_doc |-> <<>>, total |-> 0],
                        splits, 1, Len(splits), chunk_size, chunk_overlap)
        doc == _join_docs(st.current_doc)
    IN  IF doc = <<>> THEN st.docs ELSE Append(st.docs, doc)

\* _split_text: the separator to use, as an index into seps (0: none of them
\* occurs and none is "", so the last one is used and nothing is left)
SeparatorIndex(t, seps) ==
    LET hit == {i \in 1..Len(seps) : seps[i] = <<>> \/ re_search(seps[i], t)}
    IN  IF hit = {} THEN 0 ELSE CHOOSE i \in hit : \A j \in hit : i <= j

RECURSIVE _split_text(_, _, _, _)
RECURSIVE SplitLoop(_, _, _, _, _, _, _)

\* _split_text: `for s in splits`, over splits[lo..hi]
SplitLoop(st, splits, lo, hi, new_separators, chunk_size, chunk_overlap) ==
    IF lo > hi THEN st
    ELSE IF lo = hi THEN
        LET s == splits[lo]
        IN  IF length_function(s) < chunk_size
            THEN [st EXCEPT !._good_splits = Append(st._good_splits, s)]
            ELSE LET merged == IF st._good_splits = <<>> THEN <<>>
                               ELSE _merge_splits(st._good_splits, chunk_size, chunk_overlap)
                     other == IF new_separators = <<>> THEN <<s>>
                              ELSE _split_text(s, new_separators, chunk_size, chunk_overlap)
                 IN  [final_chunks |-> st.final_chunks \o merged \o other,
                      _good_splits |-> <<>>]
    ELSE LET mid == (lo + hi) \div 2
             first == SplitLoop(st, splits, lo, mid, new_separators, chunk_size, chunk_overlap)
         IN  IF Len(first.final_chunks) < 0 THEN first   \* never
             ELSE SplitLoop(first, splits, mid + 1, hi, new_separators, chunk_size, chunk_overlap)

_split_text(t, seps, chunk_size, chunk_overlap) ==
    LET i == SeparatorIndex(t, seps)
        separator == IF i = 0 THEN seps[Len(seps)] ELSE seps[i]
        new_separators == IF i = 0 \/ separator = <<>> THEN <<>>
                          ELSE SubSeq(seps, i + 1, Len(seps))
        splits == _split_text_with_regex(t, separator)
        st == SplitLoop([final_chunks |-> <<>>, _good_splits |-> <<>>],
                        splits, 1, Len(splits), new_separators, chunk_size, chunk_overlap)
    IN  IF st._good_splits = <<>> THEN st.final_chunks
        ELSE st.final_chunks \o _merge_splits(st._good_splits, chunk_size, chunk_overlap)

\* a splitter that returns the text of a block whole
split_text_whole(t, config) == IF str_strip(t) = <<>> THEN <<>> ELSE <<str_strip(t)>>

\* splitter.split_text(block.text)
split_text(t, config) == _split_text(t, separators, config.max_tokens, config.overlap_tokens)

(***************************************************************************)
(* metadata_schema.py and the parsers' block construction                  *)
(***************************************************************************)
PARAGRAPH == <<112, 97, 114, 97, 103, 114, 97, 112, 104>>     \* "paragraph"
TABLE == <<116, 97, 98, 108, 101>>                            \* "table"
PDF == <<112, 100, 102>>                                      \* "pdf"
HTML == <<104, 116, 109, 108>>                                \* "html"

\* str.splitlines() on "\n", each line rstripped, numbered from 1
LineStarts(t) == {i \in 1..Len(t) : i = 1 \/ t[i - 1] = LF}

str_rstrip(t) ==
    LET ink == {i \in 1..Len(t) : t[i] \notin Whitespace}
    IN  IF ink = {} THEN <<>>
        ELSE SubSeq(t, 1, CHOOSE i \in ink : \A j \in ink : i >= j)

Lines(t) ==
    LET n == Len(t)
        s == Ascending(LineStarts(t), 1, n)
        last(k) == IF k < Len(s) THEN s[k + 1] - 1 ELSE n
    IN  [k \in 1..Len(s) |->
            [line_number |-> k,
             text |-> str_rstrip(SubSeq(t, s[k],
                         IF t[last(k)] = LF THEN last(k) - 1 ELSE last(k)))]]

\* Block(block_id, type, page_number, text, lines, section=None), as
\* _extract_paragraph_blocks / _extract_table_blocks (PDF: page set) and
\* parse_html_to_document (page_number None) build it
Block(kind, type, page, index, text) ==
    [block_id |-> (IF type = TABLE THEN <<116>> ELSE <<112>>) \o <<UNDERSCORE>>
                  \o (IF kind = PDF THEN str_int(page) \o <<UNDERSCORE>> ELSE <<>>)
                  \o str_int(index),
     type |-> type,
     page_number |-> IF kind = PDF THEN PyInt(page) ELSE PyNone,
     text |-> text,
     lines |-> IF kind = PDF THEN Lines(text)
               ELSE IF type = TABLE THEN Lines(text)
               ELSE <<[line_number |-> 1, text |-> text]>>,
     section |-> PyNone]

\* DocumentMetadata
DocumentMetadata(doc_id, ticker, filing_type, period, title, local_path) ==
    [doc_id |-> doc_id, ticker |-> ticker, filing_type |-> filing_type,
     period |-> period, source_url |-> PyNone, title |-> title,
     local_path |-> local_path]

(***************************************************************************)
(* chunking.py                                                             *)
(***************************************************************************)
\* ChunkingConfig with the fields the chunker reads; the flags are fields
\* of the record as they are fields of the dataclass
ChunkingConfig(max_tokens, overlap_tokens, max_block_tokens) ==
    [max_tokens |-> max_tokens, overlap_tokens |-> overlap_tokens,
     min_chunk_size |-> 100, max_block_tokens |-> max_block_tokens,
     keep_tables_intact |-> TRUE, keep_charts_intact |-> TRUE,
     add_document_context |-> TRUE, add_section_headers |-> TRUE,
     use_semantic_boundaries |-> TRUE]

SPLIT_TAG == <<95, 115, 112, 108, 105, 116, 95>>              \* "_split_"
CHUNK_TAG == <<95, 99, 104, 117, 110, 107, 95>>               \* "_chunk_"

\* words[start_idx:end_idx]: a negative index counts from the end, and an
\* index beyond either end is clipped
py_slice(words, start_idx, end_idx) ==
    LET clip(i) == IF i < 0 THEN Max(i + Len(words), 0) ELSE Min(i, Len(words))
    IN  SubSeq(words, clip(start_idx) + 1, clip(end_idx))

\* _split_large_blocks: the while loop over one oversized block. Block has no
\* line_start / line_end field, so no line estimate is stored: a sub-block is
\* the parent with block_id and text replaced.
RECURSIVE SplitWhile(_, _, _, _, _)
SplitWhile(block, words, start_idx, chunk_id, max_block_tokens) ==
    IF start_idx < Len(words)
    THEN LET end_idx == Min(start_idx + max_block_tokens, Len(words))
             chunk_text == JoinRange(words, <<SPACE>>, start_idx + 1, end_idx)
             new_block == [block EXCEPT
                             !.block_id = block.block_id \o SPLIT_TAG \o str_int(chunk_id),
                             !.text = chunk_text]
         IN  <<new_block>> \o SplitWhile(block, words, end_idx, chunk_id + 1, max_block_tokens)
    ELSE <<>>

\* _split_large_blocks: `for block in blocks`, over blocks[lo..hi]
RECURSIVE SplitBlocks(_, _, _, _)
SplitBlocks(blocks, lo, hi, max_block_tokens) ==
    IF lo > hi THEN <<>>
    ELSE IF lo = hi
    THEN LET block == blocks[lo]
             words == str_split(block.text)
         IN  IF Len(words) <= max_block_tokens THEN <<block>>
             ELSE SplitWhile(block, words, 0, 0, max_block_tokens)
    ELSE LET mid == (lo + hi) \div 2
         IN  SplitBlocks(blocks, lo, mid, max_block_tokens)
             \o SplitBlocks(blocks, mid + 1, hi, max_block_tokens)

\* a chunker that skips the pre-split of oversized blocks
_split_large_blocks_skipped(blocks, max_block_tokens) == blocks

_split_large_blocks(blocks, max_block_tokens) ==
    SplitBlocks(blocks, 1, Len(blocks), max_block_tokens)

\* min / max of a non-empty list of ints
MinOf(xs) == CHOOSE x \in {xs[i] : i \in 1..Len(xs)} : \A i \in 1..Len(xs) : x <= xs[i]
MaxOf(xs) == CHOOSE x \in {xs[i] : i \in 1..Len(xs)} : \A i \in 1..Len(xs) : x >= xs[i]

\* a _build_chunk_metadata that reports the document's first page as the
\* page a chunk starts on
_build_chunk_metadata_first_page(blocks) ==
    LET withPage == {i \in 1..Len(blocks) : blocks[i].page_number # PyNone}
        page_numbers == [k \in 1..Cardinality(withPage) |->
                            blocks[Ascending(withPage, 1, Len(blocks))[k]].page_number[2]]
    IN  [line_start |-> PyNone,
         line_end |-> PyNone,
         page_start |-> IF page_numbers # <<>> THEN PyInt(1) ELSE PyNone,
         page_end |-> IF page_numbers # <<>> THEN PyInt(MaxOf(page_numbers)) ELSE PyNone]

\* _build_chunk_metadata: Block has no line_number attribute, so the list of
\* line numbers is always empty
_build_chunk_metadata(blocks) ==
    LET line_numbers == <<>>
        withPage == {i \in 1..Len(blocks) : blocks[i].page_number # PyNone}
        page_numbers == [k \in 1..Cardinality(withPage) |->
                            blocks[Ascending(withPage, 1, Len(blocks))[k]].page_number[2]]
    IN  [line_start |-> IF line_numbers # <<>> THEN PyInt(MinOf(line_numbers)) ELSE PyNone,
         line_end |-> IF line_numbers # <<>> THEN PyInt(MaxOf(line_numbers)) ELSE PyNone,
         page_start |-> IF page_numbers # <<>> THEN PyInt(MinOf(page_numbers)) ELSE PyNone,
         page_end |-> IF page_numbers # <<>> THEN PyInt(MaxOf(page_numbers)) ELSE PyNone]

\* chunk_document: the metadata dict of a chunk of `block`
ChunkMetadata(doc, block) ==
    LET m == _build_chunk_metadata(<<block>>)
    IN  [doc_id |-> PyStr(doc.metadata.doc_id),
         ticker |-> IF doc.metadata.ticker # <<>>
                    THEN PyStr(str_lower(doc.metadata.ticker)) ELSE PyStr(<<>>),
         filing_type |-> OrEmpty(PyStr(doc.metadata.filing_type)),
         period |-> OrEmpty(PyStr(doc.metadata.period)),
         source_url |-> OrEmpty(doc.metadata.source_url),
         title |-> OrEmpty(doc.metadata.title),
         page_start |-> m.page_start,
         page_end |-> m.page_end,
         page_number |-> IF m.page_start = m.page_end THEN m.page_start ELSE PyNone,
         line_start |-> m.line_start,
         line_end |-> m.line_end,
         block_ids |-> PyStr(block.block_id),
         block_type |-> PyStr(block.type),
         local_path |-> OrEmpty(doc.metadata.local_path)]

\* a chunker that numbers the chunks from 0
Chunk_from_zero(doc, block, chunk_text, n) ==
    [chunk_id |-> doc.metadata.doc_id \o CHUNK_TAG \o str_int(n),
     text |-> chunk_text,
     metadata |-> ChunkMetadata(doc, block)]

\* chunk_document: the Chunk appended when all_chunks holds n chunks
Chunk(doc, block, chunk_text, n) ==
    [chunk_id |-> doc.metadata.doc_id \o CHUNK_TAG \o str_int(n + 1),
     text |-> chunk_text,
     metadata |-> ChunkMetadata(doc, block)]

\* chunk_document: `for idx, chunk_text in enumerate(text_chunks)`
RECURSIVE TextLoop(_, _, _, _, _, _)
TextLoop(all_chunks, doc, block, text_chunks, lo, hi) ==
    IF lo > hi THEN all_chunks
    ELSE IF lo = hi
    THEN Append(all_chunks, Chunk(doc, block, text_chunks[lo], Len(all_chunks)))
    ELSE LET mid == (lo + hi) \div 2
             first == TextLoop(all_chunks, doc, block, text_chunks, lo, mid)
         IN  IF Len(first) = 0 THEN first   \* never: a step appends
             ELSE TextLoop(first, doc, block, text_chunks, mid + 1, hi)

\* chunk_document: `for block in blocks`
RECURSIVE BlockLoop(_, _, _, _, _, _)
BlockLoop(all_chunks, doc, blocks, lo, hi, config) ==
    IF lo > hi THEN all_chunks
    ELSE IF lo = hi
    THEN LET text_chunks == split_text(blocks[lo].text, config)
         IN  TextLoop(all_chunks, doc, blocks[lo], text_chunks, 1, Len(text_chunks))
    ELSE LET mid == (lo + hi) \div 2
             first == BlockLoop(all_chunks, doc, blocks, lo, mid, config)
         IN  IF Len(first) < 0 THEN first   \* never
             ELSE BlockLoop(first, doc, blocks, mid + 1, hi, config)

\* chunk_document: RecursiveCharacterTextSplitter(chunk_size, chunk_overlap, ...)
\* raises ValueError when chunk_overlap is larger than chunk_size; nothing
\* else in chunk_document or ChunkingConfig looks at the configuration
chunk_document_raises(config) == config.overlap_tokens > config.max_tokens

chunk_document(doc, config) ==
    LET blocks == _split_large_blocks(doc.blocks, config.max_block_tokens)
    IN  BlockLoop(<<>>, doc, blocks, 1, Len(blocks), config)

(***************************************************************************)
(* parsers/text_normalizer.py                                              *)
(***************************************************************************)
\* \w of the re module, on ASCII
WordChar(c) == c \in (48..57) \cup (65..90) \cup (97..122) \cup {UNDERSCORE}

\* re.search of a literal
Contains(t, lit) == \E i \in 1..Len(t) : MatchAt(t, lit, i)

\* re.search of \b<word>\b
ContainsWord(t, word) ==
    \E i \in 1..Len(t) :
        /\ MatchAt(t, word, i)
        /\ i = 1 \/ ~WordChar(t[i - 1])
        /\ i + Len(word) > Len(t) \/ ~WordChar(t[i + Len(word)])

CONSOLIDATED_STATEMENT ==                                     \* "consolidated statement"
    <<99, 111, 110, 115, 111, 108, 105, 100, 97, 116, 101, 100, 32,
      115, 116, 97, 116, 101, 109, 101, 110, 116>>
CONSOLIDATED_BALANCE_SHEET ==                                 \* "consolidated balance sheet"
    <<99, 111, 110, 115, 111, 108, 105, 100, 97, 116, 101, 100, 32,
      98, 97, 108, 97, 110, 99, 101, 32, 115, 104, 101, 101, 116>>
OF_INCOME == <<32, 111, 102, 32, 105, 110, 99, 111, 109, 101>>                      \* " of income"
OF_CASH_FLOWS == <<32, 111, 102, 32, 99, 97, 115, 104, 32, 102, 108, 111, 119, 115>> \* " of cash flows"
REVENUE == <<114, 101, 118, 101, 110, 117, 101>>              \* "revenue"
SALES == <<115, 97, 108, 101, 115>>                           \* "sales"
SEGMENT == <<115, 101, 103, 109, 101, 110, 116>>              \* "segment"

\* SECTION_PATTERNS, in the order of the dict: <<name, pattern matches t>>
SECTION_PATTERNS(t) ==
    << << <<105, 110, 99, 111, 109, 101, 95, 115, 116, 97, 116, 101, 109, 101, 110, 116>>,
          \/ Contains(t, CONSOLIDATED_STATEMENT \o OF_INCOME)
          \/ Contains(t, CONSOLIDATED_STATEMENT \o <<115>> \o OF_INCOME) >>,
       << <<98, 97, 108, 97, 110, 99, 101, 95, 115, 104, 101, 101, 116>>,
          Contains(t, CONSOLIDATED_BALANCE_SHEET) >>,
       << <<99, 97, 115, 104, 95, 102, 108, 111, 119>>,
          \/ Contains(t, CONSOLIDATED_STATEMENT \o OF_CASH_FLOWS)
          \/ Contains(t, CONSOLIDATED_STATEMENT \o <<115>> \o OF_CASH_FLOWS) >>,
       << REVENUE, ContainsWord(t, REVENUE) \/ ContainsWord(t, SALES) >>,
       << <<115, 101, 103, 109, 101, 110, 116, 95, 105, 110, 102, 111, 114, 109,
            97, 116, 105, 111, 110>>,
          ContainsWord(t, SEGMENT) >> >>

\* tag_sections: the first pattern found in the lowercased text names the section
tag_sections(blocks) ==
    [k \in 1..Len(blocks) |->
        LET pats == SECTION_PATTERNS(str_lower(blocks[k].text))
            hit == {i \in 1..Len(pats) : pats[i][2]}
        IN  IF hit = {} THEN blocks[k]
            ELSE [blocks[k] EXCEPT !.section =
                     PyStr(pats[CHOOSE i \in hit : \A j \in hit : i <= j][1])]]

(***************************************************************************)
(* parsers: a file is [name, pages]; pages holds what the parsing library  *)
(* extracts from it, the text of each page of a PDF (no tables) and the    *)
(* text of each <p>/<div> element of an HTML file (no <table>)             *)
(***************************************************************************)
\* _normalize_whitespace
_normalize_whitespace(t) ==
    LET w == str_split(t) IN JoinRange(w, <<SPACE>>, 1, Len(w))

\* parse_pdf_to_document: `for page_index, page in enumerate(pdf.pages, 1)`;
\* a page whose text is blank adds no block, and a block's number is the
\* number of blocks before it
PdfBlocks(pages) ==
    LET n == Len(pages)
        page_index == Ascending({k \in 1..n : str_strip(pages[k]) # <<>>}, 1, n)
    IN  [j \in 1..Len(page_index) |->
            Block(PDF, PARAGRAPH, page_index[j], j - 1, pages[page_index[j]])]

\* parse_html_to_document: `for p in soup.find_all(["p", "div"])`; an element
\* whose normalized text is empty adds no block
HtmlBlocks(elements) ==
    LET n == Len(elements)
        kept == Ascending({k \in 1..n : _normalize_whitespace(elements[k]) # <<>>}, 1, n)
    IN  [j \in 1..Len(kept) |->
            Block(HTML, PARAGRAPH, 0, j - 1, _normalize_whitespace(elements[kept[j]]))]

\* parse_pdf_to_document / parse_html_to_document
parse_to_document(kind, file, file_path, doc_id, ticker, period, title) ==
    [metadata |-> DocumentMetadata(doc_id, ticker, kind, period, title, PyStr(file_path)),
     blocks |-> IF kind = PDF THEN PdfBlocks(file.pages)
                ELSE HtmlBlocks(file.pages)]

(***************************************************************************)
(* scripts/build_index.py                                                  *)
(***************************************************************************)
HYPHEN == 45
SLASH == 47

\* str.upper() on ASCII
str_upper(s) == [i \in 1..Len(s) |-> IF s[i] >= 97 /\ s[i] <= 122 THEN s[i] - 32 ELSE s[i]]

\* after \s*[-_]?\s* from position g: the four digits of (\d{4}), or <<>>
YearAfter(t, g) ==
    LET n == Len(t)
        gapchar == Whitespace \cup {HYPHEN, UNDERSCORE}
        rest == {k \in g..n : t[k] \notin gapchar}
    IN  IF rest = {} THEN <<>>
        ELSE LET j == CHOOSE k \in rest : \A m \in rest : k <= m
             IN  IF /\ j + 3 <= n
                    /\ \A k \in j..(j + 3) : t[k] \in 48..57
                    /\ Cardinality({k \in g..(j - 1) : t[k] \in {HYPHEN, UNDERSCORE}}) <= 1
                 THEN SubSeq(t, j, j + 3) ELSE <<>>

\* extract_period_from_filename
extract_period_from_filename(filename) ==
    LET n == Len(filename)
        quarter == {i \in 1..(n - 1) : /\ filename[i] \in {81, 113}
                                       /\ filename[i + 1] \in 49..52
                                       /\ YearAfter(filename, i + 2) # <<>>}
        word(i) == IF str_lower(SubSeq(filename, i, Min(n, i + 1))) = <<102, 121>> THEN 2
                   ELSE IF str_lower(SubSeq(filename, i, Min(n, i + 5)))
                            = <<97, 110, 110, 117, 97, 108>> THEN 6
                   ELSE 0
        annual == {i \in 1..n : word(i) > 0 /\ YearAfter(filename, i + word(i)) # <<>>}
    IN  IF quarter # {}
        THEN LET i == CHOOSE k \in quarter : \A m \in quarter : k <= m
             IN  PyStr(<<81, filename[i + 1], HYPHEN>> \o YearAfter(filename, i + 2))
        ELSE IF annual # {}
        THEN LET i == CHOOSE k \in annual : \A m \in annual : k <= m
             IN  PyStr(<<70, 89, HYPHEN>> \o YearAfter(filename, i + word(i)))
        ELSE PyNone

\* Path.suffix and Path.stem of a file name
LastDot(name) ==
    LET dots == {i \in 2..Len(name) : name[i] = DOT}
    IN  IF dots = {} \/ name[Len(name)] = DOT THEN 0
        ELSE CHOOSE i \in dots : \A j \in dots : i >= j
path_suffix(name) == IF LastDot(name) = 0 THEN <<>> ELSE SubSeq(name, LastDot(name), Len(name))
path_stem(name) == IF LastDot(name) = 0 THEN name ELSE SubSeq(name, 1, LastDot(name) - 1)

RAW_DIR == <<114, 97, 119>>                                   \* settings.raw_dir: "raw"

\* load_documents_for_ticker: the body of `for path in pdf_files` / `html_files`.
\* A file ([name, pages, readable]) without a period is skipped; the parser
\* raises on a file that is not readable, the exception is caught and printed,
\* and the loop goes on
LoadFile(dir, file, kind, ticker, period) ==
    LET file_period == IF period # PyNone /\ period # PyStr(<<>>) THEN period
                       ELSE extract_period_from_filename(file.name)
        stem == path_stem(file.name)
        file_path == RAW_DIR \o <<SLASH>> \o dir.name \o <<SLASH>> \o file.name
        parsed == parse_to_document(kind, file, file_path,
                     ticker \o <<UNDERSCORE>> \o file_period[2] \o <<UNDERSCORE>> \o stem,
                     ticker, file_period[2], PyStr(stem))
    IN  IF file_period = PyNone THEN <<>>
        ELSE IF ~file.readable THEN <<>>
        ELSE <<[parsed EXCEPT !.blocks = tag_sections(parsed.blocks)]>>

\* a loader that gives up at the first file that fails to parse
load_documents_until_failure(dir, ticker, period) ==
    IF dir.name # str_upper(ticker) /\ dir.name # str_lower(ticker) THEN <<>>
    ELSE LET pdf_files == SelectSeq(dir.files, LAMBDA f : path_suffix(f.name) = <<DOT>> \o PDF)
             html_files == SelectSeq(dir.files, LAMBDA f : path_suffix(f.name) = <<DOT>> \o HTML)
             files == pdf_files \o html_files
             attempted(f) == (period # PyNone /\ period # PyStr(<<>>))
                             \/ extract_period_from_filename(f.name) # PyNone
             failed == {k \in 1..Len(files) : attempted(files[k]) /\ ~files[k].readable}
             docs == [k \in 1..Len(files) |->
                        IF \E j \in failed : j <= k THEN <<>>
                        ELSE LoadFile(dir, files[k],
                                      IF k <= Len(pdf_files) THEN PDF ELSE HTML, ticker, period)]
         IN  Concat(docs, 1, Len(docs))

\* load_documents_for_ticker(ticker, period) on the ticker directory `dir`
\* ([name, files]) of settings.raw_dir
load_documents_for_ticker(dir, ticker, period) ==
    IF dir.name # str_upper(ticker) /\ dir.name # str_lower(ticker) THEN <<>>
    ELSE LET pdf_files == SelectSeq(dir.files, LAMBDA f : path_suffix(f.name) = <<DOT>> \o PDF)
             html_files == SelectSeq(dir.files, LAMBDA f : path_suffix(f.name) = <<DOT>> \o HTML)
             pdf_docs == [k \in 1..Len(pdf_files) |-> LoadFile(dir, pdf_files[k], PDF, ticker, period)]
             html_docs == [k \in 1..Len(html_files) |-> LoadFile(dir, html_files[k], HTML, ticker, period)]
         IN  Concat(pdf_docs, 1, Len(pdf_docs)) \o Concat(html_docs, 1, Len(html_docs))


(***************************************************************************)
(* ingestion/index_builder.py, vectorstore/chroma_store.py,                *)
(* app/services/retriever.py                                               *)
(***************************************************************************)
\* build_chunks_for_documents' configuration
IndexConfig == ChunkingConfig(800, 200, 500)

CHUNK_ID == <<99, 104, 117, 110, 107, 95, 105, 100>>          \* "chunk_id"

\* build_chunks_for_documents: ch.metadata["chunk_id"] = ch.chunk_id
WithChunkId(ch) ==
    [ch EXCEPT !.metadata = [chunk_id |-> PyStr(ch.chunk_id)] @@ ch.metadata]

RECURSIVE build_chunks_for_documents(_)
build_chunks_for_documents(documents) ==
    IF documents = <<>> THEN <<>>
    ELSE LET doc_chunks == chunk_document(Head(documents), IndexConfig)
         IN  [k \in 1..Len(doc_chunks) |-> WithChunkId(doc_chunks[k])]
             \o build_chunks_for_documents(Tail(documents))

\* index_documents: batch_size
batch_size == 64

\* a loop that takes chunks[:batch_size] on every pass
Batch_from_start(chunks, i) == SubSeq(chunks, 1, Min(batch_size, Len(chunks)))

\* index_documents: chunks[i : i + batch_size]
Batch(chunks, i) == SubSeq(chunks, i + 1, Min(i + batch_size, Len(chunks)))

\* the collection is the sequence of its rows [id, document, metadata], ids
\* pairwise distinct; collection.upsert(ids, documents, metadatas) rejects a
\* call whose ids repeat (DuplicateIDError)
Row(chunk) == [id |-> chunk.chunk_id, document |-> chunk.text, metadata |-> chunk.metadata]

DuplicateIds(chunks) ==
    \E i, j \in 1..Len(chunks) : i < j /\ chunks[i].chunk_id = chunks[j].chunk_id

\* the rows of `chunks` whose id the collection does not hold, in order
FreshRows(collection, chunks) ==
    LET known == {collection[i].id : i \in 1..Len(collection)}
        fresh == Ascending({k \in 1..Len(chunks) : chunks[k].chunk_id \notin known},
                           1, Len(chunks))
    IN  [k \in 1..Len(fresh) |-> Row(chunks[fresh[k]])]

\* an upsert that adds every row, whether its id is held or not
upsert_append(collection, chunks) ==
    collection \o [k \in 1..Len(chunks) |-> Row(chunks[k])]

\* an upsert that leaves the rows whose id is held as they are
upsert_keep_existing(collection, chunks) ==
    collection \o FreshRows(collection, chunks)

\* an upsert that first drops every row of the documents it writes
upsert_replace_documents(collection, chunks) ==
    LET doc_ids == {chunks[k].metadata["doc_id"] : k \in 1..Len(chunks)}
        kept == SelectSeq(collection, LAMBDA row : row.metadata["doc_id"] \notin doc_ids)
    IN  kept \o [k \in 1..Len(chunks) |-> Row(chunks[k])]

\* ChromaVectorStore.upsert: a row whose id is held is replaced, the others
\* are added
upsert(collection, chunks) ==
    LET ids == {chunks[k].chunk_id : k \in 1..Len(chunks)}
        at(id) == CHOOSE k \in 1..Len(chunks) : chunks[k].chunk_id = id
    IN  [i \in 1..Len(collection) |->
            IF collection[i].id \in ids THEN Row(chunks[at(collection[i].id)])
            ELSE collection[i]]
        \o FreshRows(collection, chunks)

\* a retrieve that passes the tickers as given
retrieve_raw_tickers(tickers, period) ==
    LET conditions ==
            (IF tickers # PyNone /\ tickers # PyList(<<>>)
             THEN << <<"$in", "ticker", [k \in 1..Len(tickers[2]) |-> PyStr(tickers[2][k])]>> >>
             ELSE <<>>)
            \o (IF period # PyNone /\ period # PyStr(<<>>)
                THEN << <<"$eq", "period", period>> >> ELSE <<>>)
    IN  IF conditions = <<>> THEN <<"{}">>
        ELSE IF Len(conditions) = 1 THEN conditions[1]
        ELSE <<"$and", conditions>>

\* a retrieve that wraps its conditions in $and whenever there is one
retrieve_always_and(tickers, period) ==
    LET conditions ==
            (IF tickers # PyNone /\ tickers # PyList(<<>>)
             THEN << <<"$in", "ticker",
                       [k \in 1..Len(tickers[2]) |-> PyStr(str_lower(tickers[2][k]))]>> >>
             ELSE <<>>)
            \o (IF period # PyNone /\ period # PyStr(<<>>)
                THEN << <<"$eq", "period", period>> >> ELSE <<>>)
    IN  IF conditions = <<>> THEN <<"{}">>
        ELSE <<"$and", conditions>>

\* Retriever.retrieve: the `where` it passes to the store
retrieve(tickers, period) ==
    LET conditions ==
            (IF tickers # PyNone /\ tickers # PyList(<<>>)
             THEN << <<"$in", "ticker",
                       [k \in 1..Len(tickers[2]) |-> PyStr(str_lower(tickers[2][k]))]>> >>
             ELSE <<>>)
            \o (IF period # PyNone /\ period # PyStr(<<>>)
                THEN << <<"$eq", "period", period>> >> ELSE <<>>)
    IN  IF conditions = <<>> THEN <<"{}">>
        ELSE IF Len(conditions) = 1 THEN conditions[1]
        ELSE <<"$and", conditions>>

\* collection.query(where=...): a metadata dict satisfies a condition
Satisfies(metadata, cond) ==
    IF cond[1] = "$in"
    THEN cond[2] \in DOMAIN metadata
         /\ \E k \in 1..Len(cond[3]) : metadata[cond[2]] = cond[3][k]
    ELSE cond[2] \in DOMAIN metadata /\ metadata[cond[2]] = cond[3]

Matches(metadata, where) ==
    IF where[1] = "{}" THEN TRUE
    ELSE IF where[1] = "$and"
    THEN \A k \in 1..Len(where[2]) : Satisfies(metadata, where[2][k])
    ELSE Satisfies(metadata, where)

\* ChromaVectorStore.query: the ids of the rows the filter admits; the store
\* returns the k of them nearest to the query text
query_candidates(collection, where) ==
    {collection[i].id : i \in {j \in 1..Len(collection) : Matches(collection[j].metadata, where)}}

(***************************************************************************)
(* app/services/highlight.py, app/services/citation.py                     *)
(* A float (a distance, a relevance score) is a number of hundredths.      *)
(***************************************************************************)
\* meta.get(key)
dict_get(meta, key) == IF key \in DOMAIN meta THEN meta[key] ELSE PyNone

\* str(v or "") for v None, a str or an int >= 0
str_or_empty(v) ==
    IF v[1] = "None" THEN <<>>
    ELSE IF v[1] = "str" THEN v[2]
    ELSE IF v[2] = 0 THEN <<>> ELSE str_int(v[2])

\* str(v): str(None) is "None", str(-3) is "-3"
py_str(v) ==
    IF v[1] = "None" THEN <<78, 111, 110, 101>>
    ELSE IF v[1] = "str" THEN v[2]
    ELSE IF v[2] < 0 THEN <<45>> \o str_int(0 - v[2])
    ELSE str_int(v[2])

\* s or None
OrNone(s) == IF s = <<>> THEN PyNone ELSE PyStr(s)

\* the value of a string of decimal digits
RECURSIVE DigitsValue(_)
DigitsValue(s) ==
    IF s = <<>> THEN 0
    ELSE 10 * DigitsValue(SubSeq(s, 1, Len(s) - 1)) + (s[Len(s)] - 48)

\* int(v) inside try/except (ValueError, TypeError): None where it raises.
\* An int is returned as it is.  A str is stripped of surrounding whitespace;
\* an optional sign is followed by decimal digits, with single underscores
\* allowed between digits; any other str raises ValueError.
try_int(v) ==
    IF v[1] = "int" THEN v
    ELSE IF v[1] = "str"
    THEN LET t == str_strip(v[2])
             signed == t # <<>> /\ t[1] \in {43, 45}
             body == IF signed THEN SubSeq(t, 2, Len(t)) ELSE t
             digits == SelectSeq(body, LAMBDA c : c # UNDERSCORE)
             valid == /\ body # <<>>
                      /\ body[1] \in 48..57 /\ body[Len(body)] \in 48..57
                      /\ \A i \in 1..Len(body) : body[i] \in (48..57) \cup {UNDERSCORE}
                      /\ \A i \in 1..(Len(body) - 1) :
                            ~(body[i] = UNDERSCORE /\ body[i + 1] = UNDERSCORE)
         IN  IF ~valid THEN PyNone
             ELSE IF signed /\ t[1] = 45 THEN PyInt(0 - DigitsValue(digits))
             ELSE PyInt(DigitsValue(digits))
    ELSE PyNone

\* build_search_phrase(text, max_words=24)
build_search_phrase(text) ==
    LET words == str_split(text)
    IN  JoinRange(words, <<SPACE>>, 1, Min(24, Len(words)))

\* urllib.parse.quote on ASCII: letters, digits and _ . - ~ / are kept, any
\* other character becomes %XX
HexDigit(d) == IF d < 10 THEN 48 + d ELSE 55 + d
quote(t) ==
    LET enc == [i \in 1..Len(t) |->
                  IF t[i] \in (48..57) \cup (65..90) \cup (97..122) \cup {95, 46, 45, 126, 47}
                  THEN <<t[i]>>
                  ELSE <<37, HexDigit(t[i] \div 16), HexDigit(t[i] % 16)>>]
    IN  Concat(enc, 1, Len(enc))

\* append_pdf_fragment(base, page, phrase)
append_pdf_fragment(base, page, phrase) ==
    LET fragment_parts ==
            (IF (page[1] = "int" /\ page[2] # 0) \/ (page[1] = "str" /\ page[2] # <<>>)
             THEN << <<112, 97, 103, 101, 61>> \o py_str(page) >> ELSE <<>>)
            \o (IF phrase # <<>>
                THEN << <<115, 101, 97, 114, 99, 104, 61>> \o quote(phrase) >> ELSE <<>>)
        joined == JoinRange(fragment_parts, <<38>>, 1, Len(fragment_parts))
    IN  IF fragment_parts = <<>> THEN base
        ELSE IF \E i \in 1..Len(base) : base[i] = 35 THEN base \o <<38>> \o joined
        ELSE base \o <<35>> \o joined

\* str.endswith
EndsWith(t, suffix) ==
    Len(suffix) <= Len(t) /\ SubSeq(t, Len(t) - Len(suffix) + 1, Len(t)) = suffix

\* a builder that prefers the source URL to the viewer path
_build_highlight_url_source_first(chunk) ==
    LET meta == chunk.metadata
        doc_id == str_or_empty(dict_get(meta, "doc_id"))
        chunk_id == str_or_empty(dict_get(meta, "chunk_id"))
        local_path == str_or_empty(dict_get(meta, "local_path"))
        source_url == str_or_empty(dict_get(meta, "source_url"))
    IN  IF source_url # <<>>
        THEN IF EndsWith(str_lower(source_url), <<DOT>> \o PDF)
             THEN PyStr(append_pdf_fragment(source_url, dict_get(meta, "page_start"),
                                            build_search_phrase(chunk.text)))
             ELSE PyStr(source_url)
        ELSE IF local_path # <<>> /\ doc_id # <<>> /\ chunk_id # <<>>
        THEN PyStr(<<47, 100, 111, 99, 117, 109, 101, 110, 116, 115, 47>> \o doc_id
                   \o <<47, 99, 104, 117, 110, 107, 115, 47>> \o chunk_id
                   \o <<47, 118, 105, 101, 119, 101, 114>>)
        ELSE PyNone

\* _build_highlight_url(chunk)
_build_highlight_url(chunk) ==
    LET meta == chunk.metadata
        doc_id == str_or_empty(dict_get(meta, "doc_id"))
        chunk_id == str_or_empty(dict_get(meta, "chunk_id"))
        page == dict_get(meta, "page_start")
        search_phrase == build_search_phrase(chunk.text)
        local_path == str_or_empty(dict_get(meta, "local_path"))
        source_url == str_or_empty(dict_get(meta, "source_url"))
    IN  IF local_path # <<>> /\ doc_id # <<>> /\ chunk_id # <<>>
        THEN PyStr(<<47, 100, 111, 99, 117, 109, 101, 110, 116, 115, 47>> \o doc_id
                   \o <<47, 99, 104, 117, 110, 107, 115, 47>> \o chunk_id
                   \o <<47, 118, 105, 101, 119, 101, 114>>)
        ELSE IF source_url # <<>>
        THEN IF EndsWith(str_lower(source_url), <<DOT>> \o PDF)
             THEN PyStr(append_pdf_fragment(source_url, page, search_phrase))
             ELSE PyStr(source_url)
        ELSE PyNone

\* a builder that takes whatever integer the stored page converts to
page_num_unchecked(page_start) ==
    IF page_start[1] = "None" THEN PyNone
    ELSE IF page_start[1] = "str" /\ page_start[2] = <<>> THEN PyNone
    ELSE try_int(page_start)

\* build_citations: page_num, from meta.get("page_start")
page_num(page_start) ==
    LET page_int == IF page_start[1] = "None" THEN PyNone
                    ELSE IF page_start[1] = "str" /\ page_start[2] = <<>> THEN PyNone
                    ELSE try_int(page_start)
    IN  IF page_int[1] = "int" /\ page_int[2] > 0 THEN page_int ELSE PyNone

\* build_citations: line_start / line_end, from meta.get("line_start") /
\* meta.get("line_end"): `int(v) if v != 0 else None` unless v is None, and
\* a str is never equal to 0
line_number(v) ==
    IF v[1] = "None" THEN PyNone
    ELSE IF v[1] = "int" /\ v[2] = 0 THEN PyNone
    ELSE try_int(v)

\* build_citations: the Citation built from one (chunk, distance) pair
Citation(ch, score) ==
    LET meta == ch.metadata
    IN  [doc_id |-> py_str(IF "doc_id" \in DOMAIN meta THEN meta["doc_id"] ELSE PyStr(<<>>)),
         doc_title |-> str_or_empty(dict_get(meta, "title")),
         ticker |-> str_or_empty(dict_get(meta, "ticker")),
         filing_type |-> str_or_empty(dict_get(meta, "filing_type")),
         period |-> str_or_empty(dict_get(meta, "period")),
         section |-> str_or_empty(dict_get(meta, "section")),
         page |-> page_num(dict_get(meta, "page_start")),
         line_start |-> line_number(dict_get(meta, "line_start")),
         line_end |-> line_number(dict_get(meta, "line_end")),
         table_id |-> OrNone(str_or_empty(dict_get(meta, "table_id"))),
         source_url |-> OrNone(str_or_empty(dict_get(meta, "source_url"))),
         chunk_id |-> OrNone(str_or_empty(dict_get(meta, "chunk_id"))),
         highlight_url |-> _build_highlight_url(ch),
         text |-> IF ch.text # <<>> THEN PyStr(SubSeq(ch.text, 1, Min(500, Len(ch.text))))
                  ELSE PyNone,
         relevance_score |-> IF score[1] = "None" THEN PyNone
                             ELSE PyInt(Max(0, Min(100, 100 - (score[2] \div 2))))]

\* a builder that leaves out the chunks it can build no locator for
build_citations_located(chunks_with_scores) ==
    LET located == SelectSeq(chunks_with_scores,
                       LAMBDA cs : _build_highlight_url(cs[1])[1] # "None")
    IN  [k \in 1..Len(located) |-> Citation(located[k][1], located[k][2])]

\* build_citations(chunks_with_scores)
build_citations(chunks_with_scores) ==
    [k \in 1..Len(chunks_with_scores) |->
        Citation(chunks_with_scores[k][1], chunks_with_scores[k][2])]

\* ChromaVectorStore.query: the Chunk rebuilt from a row of the response
QueryChunk(row) ==
    [chunk_id |-> IF "chunk_id" \in DOMAIN row.metadata
                  THEN py_str(row.metadata["chunk_id"]) ELSE <<>>,
     text |-> row.document,
     metadata |-> row.metadata]

(***************************************************************************)
(* vectorstore/chroma_store.py (metadata listings),                        *)
(* app/services/rag_service.py                                             *)
(* A message is the record of what its text says: which message it is, the *)
(* requested tickers and period it names, and the (ticker, period) pairs   *)
(* it lists (the text lists them sorted).                                  *)
(***************************************************************************)
\* `if v:` for a str value or None
Truthy(v) == v[1] # "None" /\ v[2] # <<>>

\* ChromaVectorStore.get_available_periods(ticker): the periods of the rows
\* whose ticker is ticker.upper() or ticker.lower()
get_available_periods(collection, ticker) ==
    {collection[i].metadata["period"][2] :
        i \in {j \in 1..Len(collection) :
                  /\ dict_get(collection[j].metadata, "ticker")
                        \in {PyStr(str_upper(ticker)), PyStr(str_lower(ticker))}
                  /\ Truthy(dict_get(collection[j].metadata, "period"))}}

\* ChromaVectorStore.get_ticker_period_map(): ticker.upper() -> periods, as
\* the set of its (ticker, period) pairs
get_ticker_period_map(collection) ==
    {<<str_upper(collection[i].metadata["ticker"][2]), collection[i].metadata["period"][2]>> :
        i \in {j \in 1..Len(collection) :
                  /\ Truthy(dict_get(collection[j].metadata, "ticker"))
                  /\ Truthy(dict_get(collection[j].metadata, "period"))}}

\* RAGService._build_availability_message(requested_tickers, requested_period)
_build_availability_message(collection, requested_tickers, requested_period) ==
    LET all_data == get_ticker_period_map(collection)
        message(kind, available) ==
            [kind |-> kind, tickers |-> requested_tickers, period |-> requested_period,
             available |-> available]
    IN  IF ~Truthy(requested_tickers)
        THEN IF all_data = {} THEN message("no data available yet", {})
             ELSE message("no data for that query", all_data)
        ELSE LET tickers == requested_tickers[2]
                 tickers_with_data ==
                     UNION {{<<str_upper(tickers[k]), period>> :
                                period \in get_available_periods(collection, tickers[k])} :
                            k \in 1..Len(tickers)}
             IN  IF tickers_with_data = {}
                 THEN message("no data for ticker", all_data)
                 ELSE IF Truthy(requested_period)
                 THEN message("no data for ticker in period", tickers_with_data)
                 ELSE message("no relevant data", tickers_with_data)

(***************************************************************************)
(* The chunker applied to bounded documents                                *)
(***************************************************************************)
\* doc, config, all_chunks, pc: a call of chunk_document
\* chunks_with_scores, citations: the argument and the result of a call of
\*       build_citations (<<>> before the call)
\* raw_dir: the ticker directory under settings.raw_dir, [name, files]
\* store: the rows of the Chroma collection
\* run: per process, the position of its index_documents call, and the
\*       calls of it that have returned so far (`calls`)
\* prev: the documents of the last run that returned normally, if no other
\*       run started or failed since (<<>> otherwise)
\* query: the retrieval request being served (<<>> when none)
\* split_call: a call of _split_large_blocks taken one loop step at a time:
\*       its arguments, its locals and its position
VARIABLES doc, config, all_chunks, pc, chunks_with_scores, citations,
          raw_dir, store, run, prev, query, split_call

chunker_vars == <<doc, config, all_chunks, pc, chunks_with_scores, citations, split_call>>
index_vars == <<raw_dir, store, run, prev, query>>
vars == <<doc, config, all_chunks, pc, chunks_with_scores, citations,
          raw_dir, store, run, prev, query, split_call>>

MaxChars == 4
MaxBlocks == 2
MaxTokens == 2
MaxOverlap == 2
MaxBlockTokens == 2

\* the characters of the bounded documents: "a", "b", " ", ".", "\n"
Alphabet == {97, 98, SPACE, DOT, LF}

Configs ==
    {ChunkingConfig(m, v, b) : m \in 1..MaxTokens, v \in 0..MaxOverlap, b \in 1..MaxBlockTokens}

DOC_ID == <<65, 95, 81, 49, 95, 114>>                          \* "A_Q1_r"
TICKER == <<65>>                                              \* "A"
PERIOD == <<81, 49>>                                          \* "Q1"
LOCAL_PATH == <<114, 46, 112, 100, 102>>                      \* "r.pdf"

EmptyDocument(kind) ==
    [metadata |-> DocumentMetadata(DOC_ID, TICKER, kind, PERIOD, PyNone, PyStr(LOCAL_PATH)),
     blocks |-> <<>>]

\* the scenario document: one paragraph block of 1000 distinct one-character
\* words separated by single spaces; the scenario's max_tokens and
\* overlap_tokens, max_block_tokens at its default
ScenarioWords == [i \in 1..1000 |-> <<1000 + i>>]
ScenarioDoc ==
    [metadata |-> DocumentMetadata(DOC_ID, TICKER, PDF, PERIOD, PyNone, PyStr(LOCAL_PATH)),
     blocks |-> <<Block(PDF, PARAGRAPH, 1, 0, JoinRange(ScenarioWords, <<SPACE>>, 1, 1000))>>]
ScenarioConfig == ChunkingConfig(400, 50, 500)

\* a document chunked with the configuration of build_chunks_for_documents:
\* one paragraph block of 500 words, each of them "a."
PunctuatedDoc ==
    [metadata |-> DocumentMetadata(DOC_ID, TICKER, PDF, PERIOD, PyNone, PyStr(LOCAL_PATH)),
     blocks |-> <<Block(PDF, PARAGRAPH, 1, 0,
                        JoinRange([i \in 1..500 |-> <<97, DOT>>], <<SPACE>>, 1, 500))>>]

BlockTexts(d) == [i \in 1..Len(d.blocks) |-> d.blocks[i].text]
TotalChars(d) == Len(Concat(BlockTexts(d), 1, Len(d.blocks)))
LastPage(d) == IF d.blocks = <<>> THEN 0 ELSE d.blocks[Len(d.blocks)].page_number[2]

Procs == {1, 2}
NoQuery == <<>>
\* no call of _split_large_blocks is being followed
NoSplit == [pc |-> "idle"]
Idle(n) == [pc |-> "idle", documents |-> <<>>, chunks |-> <<>>, i |-> 0,
            store0 |-> <<>>, started |-> n, calls |-> <<>>]

\* nothing is indexed and nothing is asked
IndexIdle ==
    /\ raw_dir = [name |-> TICKER, files |-> <<>>]
    /\ store = <<>>
    /\ run = [p \in Procs |-> Idle(0)]
    /\ prev = <<>>
    /\ query = NoQuery

Init ==
    /\ pc = "input"
    /\ all_chunks = <<>>
    /\ chunks_with_scores = <<>>
    /\ citations = <<>>
    /\ split_call = NoSplit
    /\ config = IndexConfig
    /\ doc \in {EmptyDocument(PDF), EmptyDocument(HTML), ScenarioDoc, PunctuatedDoc}
    /\ IndexIdle

\* a parser appends a block to the document: in a PDF a paragraph block opens
\* the next page and a table block lies on the current one
AddBlock(type) ==
    /\ pc = "input"
    /\ Len(doc.blocks) < MaxBlocks
    /\ TotalChars(doc) < MaxChars
    /\ LET kind == doc.metadata.filing_type
           page == IF kind = HTML THEN 0
                   ELSE IF type = PARAGRAPH \/ doc.blocks = <<>> THEN LastPage(doc) + 1
                   ELSE LastPage(doc)
       IN  doc' = [doc EXCEPT !.blocks =
                     Append(@, Block(kind, type, page, Len(doc.blocks), <<>>))]
    /\ UNCHANGED <<config, all_chunks, pc, chunks_with_scores, citations, index_vars, split_call>>

\* ... and the text of the block it is building grows by one character (the
\* two letters are interchangeable: "b" is used once "a" has been)
AppendChar(c) ==
    /\ pc = "input"
    /\ doc.blocks # <<>>
    /\ TotalChars(doc) < MaxChars
    /\ c = 98 => \E i \in 1..Len(doc.blocks) :
                    \E j \in 1..Len(doc.blocks[i].text) : doc.blocks[i].text[j] = 97
    /\ LET n == Len(doc.blocks)
           b == doc.blocks[n]
       IN  doc' = [doc EXCEPT !.blocks[n] =
                     Block(doc.metadata.filing_type, b.type,
                           IF b.page_number = PyNone THEN 0 ELSE b.page_number[2],
                           n - 1, Append(b.text, c))]
    /\ UNCHANGED <<config, all_chunks, pc, chunks_with_scores, citations, index_vars, split_call>>

\* all_chunks = chunk_document(doc, cfg), or the call raises
ChunkDocument(cfg) ==
    /\ pc = "input"
    /\ doc = ScenarioDoc <=> cfg = ScenarioConfig
    /\ doc = PunctuatedDoc <=> cfg = IndexConfig
    /\ config' = cfg
    /\ all_chunks' = IF chunk_document_raises(cfg) THEN <<>> ELSE chunk_document(doc, cfg)
    /\ pc' = IF chunk_document_raises(cfg) THEN "raised" ELSE "chunked"
    /\ UNCHANGED <<doc, chunks_with_scores, citations, index_vars, split_call>>

Next ==
    \/ \E type \in {PARAGRAPH, TABLE} : AddBlock(type)
    \/ \E c \in Alphabet : AppendChar(c)
    \/ \E cfg \in Configs \cup {ScenarioConfig, IndexConfig} : ChunkDocument(cfg)

Spec == Init /\ [][Next]_vars

(***************************************************************************)
(* Repeated calls of chunk_document, and citations for retrieved chunks    *)
(***************************************************************************)
\* a document with no local file and no source URL
UnlocatedDocument == [EmptyDocument(HTML) EXCEPT !.metadata.local_path = PyNone]

\* the configurations of the calls: chunks of one word, chunks of two words
\* with overlap, pre-split blocks
CallConfigs ==
    {ChunkingConfig(1, 0, MaxBlockTokens), ChunkingConfig(MaxTokens, 1, MaxBlockTokens),
     ChunkingConfig(MaxTokens, 0, 1)}

\* the distances of a query response, nearest first (0.0, 0.5, 2.5)
Distances == <<0, 50, 250>>

InitCalls ==
    /\ pc = "input"
    /\ all_chunks = <<>>
    /\ chunks_with_scores = <<>>
    /\ citations = <<>>
    /\ split_call = NoSplit
    /\ config = IndexConfig
    /\ doc \in {EmptyDocument(PDF), UnlocatedDocument}
    /\ IndexIdle

\* a second call that goes on with the list the first call returned
ChunkAgain_shared_list ==
    /\ pc = "chunked"
    /\ LET blocks == _split_large_blocks(doc.blocks, config.max_block_tokens)
       IN  all_chunks' = BlockLoop(all_chunks, doc, blocks, 1, Len(blocks), config)
    /\ pc' = "rechunked"
    /\ UNCHANGED <<doc, config, chunks_with_scores, citations, index_vars, split_call>>

\* chunk_document is called again, on the same document with the same
\* configuration
ChunkAgain ==
    /\ pc = "chunked"
    /\ all_chunks' = chunk_document(doc, config)
    /\ pc' = "rechunked"
    /\ UNCHANGED <<doc, config, chunks_with_scores, citations, index_vars, split_call>>

\* the chunks are indexed (build_chunks_for_documents, upsert), a query
\* returns them with the chunk `first` nearest, and build_citations is
\* called on the response
BuildCitations(first) ==
    /\ pc \in {"chunked", "rechunked"}
    /\ first \in 1..Max(1, Len(all_chunks))
    /\ LET n == Len(all_chunks)
           response == [k \in 1..n |->
                          <<QueryChunk(Row(WithChunkId(all_chunks[((first + k - 2) % n) + 1]))),
                            PyInt(Distances[Min(k, Len(Distances))])>>]
       IN  /\ chunks_with_scores' = response
           /\ citations' = build_citations(response)
    /\ pc' = "cited"
    /\ UNCHANGED <<doc, config, all_chunks, index_vars, split_call>>

NextCalls ==
    \/ \E type \in {PARAGRAPH, TABLE} : AddBlock(type)
    \/ \E c \in Alphabet : AppendChar(c)
    \/ \E cfg \in CallConfigs : ChunkDocument(cfg)
    \/ ChunkAgain
    \/ \E first \in 1..MaxChars : BuildCitations(first)

SpecCalls == InitCalls /\ [][NextCalls]_vars

(***************************************************************************)
(* _split_large_blocks, one loop step at a time                            *)
(***************************************************************************)
MaxWords == 5
MaxSplitTokens == 3

\* the texts of the blocks: 0 to MaxWords one-letter words "a", "b", ...
\* separated by single spaces, and "a  b\nc"
SplitTexts ==
    {JoinRange([k \in 1..w |-> <<96 + k>>], <<SPACE>>, 1, w) : w \in 0..MaxWords}
    \cup {<<97, SPACE, SPACE, 98, LF, 99>>}

\* _split_large_blocks(blocks, max_block_tokens) is called on one or two
\* blocks, with max_block_tokens from -1 to MaxSplitTokens
InitSplit ==
    /\ pc = "input"
    /\ all_chunks = <<>>
    /\ chunks_with_scores = <<>>
    /\ citations = <<>>
    /\ config = IndexConfig
    /\ doc = EmptyDocument(PDF)
    /\ IndexIdle
    /\ \E first \in SplitTexts, second \in SplitTexts, count \in 1..2,
          max_block_tokens \in (0 - 1)..MaxSplitTokens :
            split_call =
                [blocks |-> <<Block(PDF, PARAGRAPH, 1, 0, first)>>
                            \o (IF count = 1 THEN <<>>
                                ELSE <<Block(PDF, TABLE, 1, 1, second)>>),
                 max_block_tokens |-> max_block_tokens,
                 new_blocks |-> <<>>, n |-> 0, start_idx |-> 0, chunk_id |-> 0, pc |-> "for"]

\* `for block in blocks`: the next block (the n-th was the last one taken) is
\* appended as it is or the while loop over it is entered; after the last
\* block the call returns new_blocks
ForBlock ==
    /\ split_call.pc = "for"
    /\ IF split_call.n = Len(split_call.blocks)
       THEN split_call' = [split_call EXCEPT !.pc = "returned"]
       ELSE LET block == split_call.blocks[split_call.n + 1]
                total_words == Len(str_split(block.text))
            IN  IF total_words <= split_call.max_block_tokens
                THEN split_call' = [split_call EXCEPT !.new_blocks = Append(@, block),
                                                      !.n = @ + 1]
                ELSE split_call' = [split_call EXCEPT !.n = @ + 1, !.start_idx = 0,
                                                      !.chunk_id = 0, !.pc = "while"]
    /\ UNCHANGED <<doc, config, all_chunks, pc, chunks_with_scores, citations, index_vars>>

\* a loop body that steps back by one word so that sub-blocks overlap
WhileBody_overlapping ==
    /\ split_call.pc = "while"
    /\ LET block == split_call.blocks[split_call.n]
           words == str_split(block.text)
           start_idx == split_call.start_idx
           end_idx == Min(start_idx + split_call.max_block_tokens, Len(words))
           new_block == [block EXCEPT
                           !.block_id = block.block_id \o SPLIT_TAG \o str_int(split_call.chunk_id),
                           !.text = JoinRange(py_slice(words, start_idx, end_idx), <<SPACE>>, 1,
                                              Len(py_slice(words, start_idx, end_idx)))]
       IN  /\ start_idx < Len(words)
           /\ split_call.chunk_id <= MaxWords
           /\ split_call' = [split_call EXCEPT
                                !.new_blocks = Append(@, new_block),
                                !.start_idx = IF end_idx < Len(words) /\ end_idx - start_idx > 1
                                              THEN end_idx - 1 ELSE end_idx,
                                !.chunk_id = @ + 1]
    /\ UNCHANGED <<doc, config, all_chunks, pc, chunks_with_scores, citations, index_vars>>

\* `while start_idx < total_words`: one pass through the body (followed here
\* for MaxWords + 1 passes at most)
WhileBody ==
    /\ split_call.pc = "while"
    /\ LET block == split_call.blocks[split_call.n]
           words == str_split(block.text)
           start_idx == split_call.start_idx
           end_idx == Min(start_idx + split_call.max_block_tokens, Len(words))
           chunk_text == JoinRange(py_slice(words, start_idx, end_idx), <<SPACE>>, 1,
                                   Len(py_slice(words, start_idx, end_idx)))
           new_block == [block EXCEPT
                           !.block_id = block.block_id \o SPLIT_TAG \o str_int(split_call.chunk_id),
                           !.text = chunk_text]
       IN  /\ start_idx < Len(words)
           /\ split_call.chunk_id <= MaxWords
           /\ split_call' = [split_call EXCEPT !.new_blocks = Append(@, new_block),
                                                !.start_idx = end_idx,
                                                !.chunk_id = @ + 1]
    /\ UNCHANGED <<doc, config, all_chunks, pc, chunks_with_scores, citations, index_vars>>

\* the loop condition fails: on to the next block
WhileExit ==
    /\ split_call.pc = "while"
    /\ split_call.start_idx >=
          Len(str_split(split_call.blocks[split_call.n].text))
    /\ split_call' = [split_call EXCEPT !.pc = "for"]
    /\ UNCHANGED <<doc, config, all_chunks, pc, chunks_with_scores, citations, index_vars>>

SpecSplit == InitSplit /\ [][ForBlock \/ WhileBody \/ WhileExit]_vars

(***************************************************************************)
(* build_citations on the metadata a store can hold                        *)
(***************************************************************************)
\* what a row can hold under page_start, line_start and line_end: None, the
\* ints 0, 3 and -1, and the strings "", "0", "7", "-2", "x" and " 5"
StoredValues ==
    {PyNone, PyInt(0), PyInt(3), PyInt(0 - 1), PyStr(<<>>), PyStr(<<48>>), PyStr(<<55>>),
     PyStr(<<45, 50>>), PyStr(<<120>>), PyStr(<<SPACE, 53>>)}

\* what a row can hold under source_url: "", "u.pdf", "u.PDF", "u#x.pdf" and
\* "u.htm"
StoredUrls ==
    {<<>>, <<117, 46, 112, 100, 102>>, <<117, 46, 80, 68, 70>>,
     <<117, 35, 120, 46, 112, 100, 102>>, <<117, 46, 104, 116, 109>>}

\* the document the stored chunk was made from: one paragraph "a b"
CitedDocument ==
    [EmptyDocument(PDF) EXCEPT !.blocks = <<Block(PDF, PARAGRAPH, 1, 0, <<97, SPACE, 98>>)>>]

\* a chunk of a query response: the chunk index_documents stored for
\* CitedDocument, with the given values in its metadata
StoredChunk(ch, page_start, line_start, line_end, local_path, source_url) ==
        [ch EXCEPT !.metadata =
            [key \in DOMAIN ch.metadata |->
                IF key = "page_start" THEN page_start
                ELSE IF key = "line_start" THEN line_start
                ELSE IF key = "line_end" THEN line_end
                ELSE IF key = "local_path" THEN PyStr(local_path)
                ELSE IF key = "source_url" THEN PyStr(source_url)
                ELSE ch.metadata[key]]]

InitCite ==
    /\ pc = "stored"
    /\ all_chunks = <<>>
    /\ citations = <<>>
    /\ split_call = NoSplit
    /\ config = IndexConfig
    /\ doc = CitedDocument
    /\ \E ch \in {QueryChunk(Row(build_chunks_for_documents(<<CitedDocument>>)[1]))},
          page_start \in StoredValues, line_start \in StoredValues, line_end \in StoredValues,
          local_path \in {<<>>, LOCAL_PATH}, source_url \in StoredUrls :
            chunks_with_scores =
                << <<StoredChunk(ch, page_start, line_start, line_end, local_path, source_url),
                     PyInt(Distances[2])>> >>
    /\ IndexIdle

\* RAGService.answer: citations = build_citations(chunks_with_scores). int()
\* raises nothing but ValueError and TypeError on a None, an int or a str, so
\* the call returns
BuildStoredCitations ==
    /\ pc = "stored"
    /\ citations' = build_citations(chunks_with_scores)
    /\ pc' = "cited"
    /\ UNCHANGED <<doc, config, all_chunks, chunks_with_scores, index_vars, split_call>>

SpecCite == InitCite /\ [][BuildStoredCitations]_vars

(***************************************************************************)
(* Indexing runs and retrieval requests over a ticker directory            *)
(***************************************************************************)
MaxRuns == 2
MaxConcRuns == 1
ExtraPages == 1

\* a file long enough to need more than one batch
LongPages == batch_size + ExtraPages

TextA == <<97>>                                               \* "a"
TextSales == <<115, 97, 108, 101, 115, 32, 117, 112>>         \* "sales up"

\* the two versions of a file: LongPages pages of text, in the first version
\* after a blank page
LongFileA == <<<<SPACE>>>> \o [k \in 1..LongPages |-> TextA]
LongFileSales == [k \in 1..LongPages |-> TextSales]
Contents == {LongFileA, LongFileSales}

REPORT_PDF == <<81, 49, 50, 48, 50, 53, 46, 112, 100, 102>>         \* "Q12025.pdf"
REPORT_HTML == <<81, 49, 50, 48, 50, 53, 46, 104, 116, 109, 108>>   \* "Q12025.html"
NOTES_PDF == <<120, 46, 112, 100, 102>>                             \* "x.pdf"
Q1_2025 == <<81, 49, 45, 50, 48, 50, 53>>                           \* "Q1-2025"

\* the directories the runs start from, their files readable
Layouts ==
    { [name |-> <<65, 66>>, files |-> <<[name |-> REPORT_PDF, pages |-> LongFileA, readable |-> TRUE]>>],
      [name |-> <<97, 98>>, files |-> <<[name |-> REPORT_PDF, pages |-> LongFileA, readable |-> TRUE],
                                        [name |-> REPORT_HTML, pages |-> LongFileA, readable |-> TRUE]>>],
      [name |-> <<65, 66>>, files |-> <<[name |-> NOTES_PDF, pages |-> LongFileSales, readable |-> TRUE]>>] }

\* the ticker arguments of a run ("AB", "aB") and of a request
RunTickers == {<<65, 66>>, <<97, 66>>}
RequestTickers ==
    {PyNone, PyList(<<>>), PyList(<<<<65, 66>>>>), PyList(<<<<97, 98>>>>), PyList(<<<<65, 98>>>>)}
Periods == {PyNone, PyStr(Q1_2025)}
RequestPeriods == Periods \cup {PyStr(<<>>)}

InitIndex ==
    /\ pc = "input"
    /\ all_chunks = <<>>
    /\ chunks_with_scores = <<>>
    /\ citations = <<>>
    /\ split_call = NoSplit
    /\ config = IndexConfig
    /\ doc = EmptyDocument(PDF)
    /\ raw_dir \in Layouts
    /\ store = <<>>
    /\ run = [p \in Procs |-> Idle(0)]
    /\ prev = <<>>
    /\ query = NoQuery

\* index_documents(load_documents_for_ticker(ticker, period), ...) up to the
\* batch loop: the chunks are built; with no chunks the call returns
StartRun(p, ticker, period, limit) ==
    /\ query = NoQuery
    /\ run[p].pc = "idle"
    /\ run[p].started < limit
    /\ \E documents \in {load_documents_for_ticker(raw_dir, ticker, period)} :
       \E chunks \in {build_chunks_for_documents(documents)} :
          /\ run' = [run EXCEPT ![p] =
                       [pc |-> IF chunks = <<>> THEN "done" ELSE "embed",
                        documents |-> documents, chunks |-> chunks, i |-> 0,
                        store0 |-> store, started |-> run[p].started + 1,
                        calls |-> <<>>]]
          /\ prev' = IF prev = documents THEN prev ELSE <<>>
    /\ UNCHANGED <<raw_dir, store, query, chunker_vars>>

\* openai_client.embed_texts on the batch: it returns, or it raises and
\* index_documents re-raises
EmbedTexts(p, ok) ==
    /\ query = NoQuery
    /\ run[p].pc = "embed"
    /\ LET batch == Batch(run[p].chunks, run[p].i)
           texts == [k \in 1..Len(batch) |-> batch[k].text]
       IN  run' = [run EXCEPT
                     ![p].pc = IF ok THEN "upsert" ELSE "raised",
                     ![p].calls = IF ok THEN Append(@, [op |-> "embed_texts", texts |-> texts])
                                  ELSE @]
    /\ prev' = IF ok THEN prev ELSE <<>>
    /\ UNCHANGED <<raw_dir, store, query, chunker_vars>>

\* vector_store.upsert(batch): it returns and the loop goes on to the next
\* batch or ends, or it raises (always, when ids repeat within the batch)
\* and index_documents re-raises
Upsert(p, ok) ==
    /\ query = NoQuery
    /\ run[p].pc = "upsert"
    /\ LET batch == Batch(run[p].chunks, run[p].i)
           returns == ok /\ ~DuplicateIds(batch)
       IN  /\ store' = IF returns THEN upsert(store, batch) ELSE store
           /\ run' = [run EXCEPT
                        ![p].pc = IF ~returns THEN "raised"
                                  ELSE IF run[p].i + batch_size < Len(run[p].chunks)
                                  THEN "embed" ELSE "done",
                        ![p].i = IF returns THEN run[p].i + batch_size ELSE run[p].i,
                        ![p].calls =
                            IF returns
                            THEN Append(@, [op |-> "upsert",
                                            ids |-> [k \in 1..Len(batch) |-> batch[k].chunk_id]])
                            ELSE @]
           /\ prev' = IF returns THEN prev ELSE <<>>
    /\ UNCHANGED <<raw_dir, query, chunker_vars>>

\* index_documents returns to its caller, or the exception reaches it
Return(p) ==
    /\ query = NoQuery
    /\ run[p].pc \in {"done", "raised"}
    /\ prev' = IF run[p].pc = "done" THEN run[p].documents ELSE <<>>
    /\ run' = [run EXCEPT ![p] = Idle(run[p].started)]
    /\ UNCHANGED <<raw_dir, store, query, chunker_vars>>

\* a new version of a file replaces it in the ticker directory, before a
\* process of `readers` loads it
Rewrite(k, pages, readers) ==
    /\ query = NoQuery
    /\ \E p \in readers : run[p].pc = "idle"
    /\ k \in 1..Len(raw_dir.files)
    /\ raw_dir.files[k].pages # pages
    /\ raw_dir' = [raw_dir EXCEPT !.files[k].pages = pages]
    /\ UNCHANGED <<store, run, prev, query, chunker_vars>>

\* Retriever.retrieve(query, k, tickers, period), between the runs
Retrieve(tickers, period) ==
    /\ query = NoQuery
    /\ \A p \in Procs : run[p].pc = "idle"
    /\ LET where == retrieve(tickers, period)
       IN  query' = [tickers |-> tickers, period |-> period, where |-> where,
                     candidates |-> query_candidates(store, where)]
    /\ UNCHANGED <<raw_dir, store, run, prev, chunker_vars>>

\* the results are returned to the caller
Respond ==
    /\ query # NoQuery
    /\ query' = NoQuery
    /\ UNCHANGED <<raw_dir, store, run, prev, chunker_vars>>

\* one process indexes, run after run, while requests are served
NextIndex ==
    \/ \E ticker \in RunTickers, period \in Periods : StartRun(1, ticker, period, MaxRuns)
    \/ \E ok \in BOOLEAN : EmbedTexts(1, ok)
    \/ \E ok \in BOOLEAN : Upsert(1, ok)
    \/ Return(1)
    \/ \E k \in 1..2, pages \in Contents : Rewrite(k, pages, {1})
    \/ \E tickers \in RequestTickers, period \in RequestPeriods : Retrieve(tickers, period)
    \/ Respond

SpecIndex == InitIndex /\ [][NextIndex]_vars

\* two processes index the same directory at the same time
InitConc == InitIndex /\ Len(raw_dir.files) = 1

NextConc ==
    \/ \E p \in Procs, ticker \in RunTickers, period \in Periods :
          StartRun(p, ticker, period, MaxConcRuns)
    \/ \E p \in Procs, ok \in BOOLEAN : EmbedTexts(p, ok)
    \/ \E p \in Procs, ok \in BOOLEAN : Upsert(p, ok)
    \/ \E p \in Procs : Return(p)
    \/ \E pages \in Contents : Rewrite(1, pages, Procs)

SpecConc == InitConc /\ [][NextConc]_vars

(***************************************************************************)
(* Indexing runs over short files, some of them unreadable, and chat       *)
(* requests                                                                *)
(***************************************************************************)
MaxServeRuns == 3
MaxTopK == 2

REPORT_FY_HTML == <<70, 89, 50, 48, 50, 52, 46, 104, 116, 109, 108>>   \* "FY2024.html"
FY_2024 == <<70, 89, 45, 50, 48, 50, 52>>                              \* "FY-2024"

\* the versions of a short file: one, three and two pages
ServeContents == {<<TextA>>, <<TextSales, TextSales, TextSales>>, <<TextA, TextSales>>}

\* a directory with one file, and a directory whose first PDF file (with no
\* period in its name) and whose first HTML file cannot be parsed
ServeLayouts ==
    { [name |-> <<65, 66>>,
       files |-> <<[name |-> REPORT_PDF, pages |-> <<TextA>>, readable |-> TRUE]>>],
      [name |-> <<65, 66>>,
       files |-> <<[name |-> NOTES_PDF, pages |-> <<TextA>>, readable |-> FALSE],
                   [name |-> REPORT_PDF, pages |-> <<TextSales, TextSales, TextSales>>,
                    readable |-> TRUE],
                   [name |-> REPORT_HTML, pages |-> <<TextA>>, readable |-> FALSE],
                   [name |-> REPORT_FY_HTML, pages |-> <<TextA>>, readable |-> TRUE]>>] }

InitServe ==
    /\ pc = "input"
    /\ all_chunks = <<>>
    /\ chunks_with_scores = <<>>
    /\ citations = <<>>
    /\ split_call = NoSplit
    /\ config = IndexConfig
    /\ doc = EmptyDocument(PDF)
    /\ raw_dir \in ServeLayouts
    /\ store = <<>>
    /\ run = [p \in Procs |-> Idle(0)]
    /\ prev = <<>>
    /\ query = NoQuery

\* a service that sends every request to the chat model
Answer_always_chat(tickers, period, top_k, first, ok) ==
    /\ query = NoQuery
    /\ \A p \in Procs : run[p].pc = "idle"
    /\ LET where == retrieve(tickers, period)
           candidates == query_candidates(store, where)
           rows == SelectSeq(store, LAMBDA row : row.id \in candidates)
           n == Len(rows)
           results == [k \in 1..Min(top_k, n) |->
                         <<QueryChunk(rows[((first + k - 2) % n) + 1]),
                           PyInt(Distances[Min(k, Len(Distances))])>>]
       IN  /\ first <= Max(1, n)
           /\ query' = [tickers |-> tickers, period |-> period, where |-> where,
                         candidates |-> candidates, results |-> results,
                         chat_calls |-> 1, raised |-> ~ok,
                         response |->
                            IF ~ok THEN [raised |-> TRUE]
                            ELSE [answer |-> [kind |-> "reply of the chat model"],
                                  citations |-> build_citations(results),
                                  raw_context |-> PyList(results),
                                  model |-> PyNone, usage |-> PyNone]]
    /\ UNCHANGED <<raw_dir, store, run, prev, chunker_vars>>

\* RAGService.answer(request), between the runs, for a request without a
\* model name: the query returns the top_k nearest of the rows that match the
\* filter, nearest first (here the rows from row `first` on, so that
\* rerank_by_distance leaves the order as it is); with no result the
\* availability message is returned, otherwise the chat model is called and
\* it replies or raises (and there is no response but the exception)
Answer(tickers, period, top_k, first, ok) ==
    /\ query = NoQuery
    /\ \A p \in Procs : run[p].pc = "idle"
    /\ LET where == retrieve(tickers, period)
           candidates == query_candidates(store, where)
           rows == SelectSeq(store, LAMBDA row : row.id \in candidates)
           n == Len(rows)
           results == [k \in 1..Min(top_k, n) |->
                         <<QueryChunk(rows[((first + k - 2) % n) + 1]),
                           PyInt(Distances[Min(k, Len(Distances))])>>]
       IN  /\ first <= Max(1, n)
           /\ results = <<>> => ok
           /\ query' = [tickers |-> tickers, period |-> period, where |-> where,
                         candidates |-> candidates, results |-> results,
                         chat_calls |-> IF results = <<>> THEN 0 ELSE 1,
                         raised |-> ~ok,
                         response |->
                            IF results = <<>>
                            THEN [answer |-> _build_availability_message(store, tickers, period),
                                  citations |-> <<>>, raw_context |-> PyNone,
                                  model |-> PyNone, usage |-> PyNone]
                            ELSE IF ~ok THEN [raised |-> TRUE]
                            ELSE [answer |-> [kind |-> "reply of the chat model"],
                                  citations |-> build_citations(results),
                                  raw_context |-> PyList(results),
                                  model |-> PyNone, usage |-> PyNone]]
    /\ UNCHANGED <<raw_dir, store, run, prev, chunker_vars>>

\* one process indexes the directory for ticker "AB", run after run, new
\* versions of the report replace it, and requests are served (for no
\* ticker, for "ab" and for "zz", which has no data; for no period and for
\* "FY-2024")
NextServe ==
    \/ \E period \in Periods : StartRun(1, <<65, 66>>, period, MaxServeRuns)
    \/ \E ok \in BOOLEAN : EmbedTexts(1, ok)
    \/ \E ok \in BOOLEAN : Upsert(1, ok)
    \/ Return(1)
    \/ \E k \in DOMAIN raw_dir.files, pages \in ServeContents :
          raw_dir.files[k].name = REPORT_PDF /\ Rewrite(k, pages, {1})
    \/ \E tickers \in {PyNone, PyList(<<<<97, 98>>>>), PyList(<<<<122, 122>>>>)},
          period \in {PyNone, PyStr(FY_2024)}, top_k \in 1..MaxTopK, first \in 1..2,
          ok \in BOOLEAN :
            Answer(tickers, period, top_k, first, ok)
    \/ Respond

SpecServe == InitServe /\ [][NextServe]_vars

(***************************************************************************)
(* Properties of chunk_document                                            *)
(***************************************************************************)
IsPrefix(p, t) == Len(p) <= Len(t) /\ \A i \in 1..Len(p) : t[i] = p[i]

\* the block of doc.blocks a chunk comes from, by its block_ids entry: the
\* block's own id, or that id followed by "_split_<n>"
SourceBlock(d, chunk) ==
    CHOOSE j \in 1..Len(d.blocks) :
        \/ chunk.metadata.block_ids[2] = d.blocks[j].block_id
        \/ IsPrefix(d.blocks[j].block_id \o SPLIT_TAG, chunk.metadata.block_ids[2])

ChunkWords(i) == str_split(all_chunks[i].text)

LastWords(w, k) == SubSeq(w, Len(w) - k + 1, Len(w))
FirstWords(w, k) == SubSeq(w, 1, k)

\* the words of all blocks, in block order
DocWords(d) ==
    LET w == [i \in 1..Len(d.blocks) |-> str_split(d.blocks[i].text)]
    IN  Concat(w, 1, Len(w))

\* C1: the i-th chunk returned by chunk_document has chunk_id
\* doc_id + "_chunk_" + str(i), i counting from 1, and the chunk ids of one
\* call are pairwise distinct
C1_ChunkIds ==
    pc = "chunked" =>
        /\ \A i \in 1..Len(all_chunks) :
              all_chunks[i].chunk_id = doc.metadata.doc_id \o CHUNK_TAG \o str_int(i)
        /\ \A i, j \in 1..Len(all_chunks) :
              i # j => all_chunks[i].chunk_id # all_chunks[j].chunk_id

C1_Witness ==
    /\ pc = "chunked"
    /\ Len(all_chunks) >= 3
    /\ SourceBlock(doc, all_chunks[1]) # SourceBlock(doc, all_chunks[Len(all_chunks)])

\* chunks i..n, each with at most overlap_tokens leading words removed that
\* repeat the last words of its predecessor, spell out words[pos..]
RECURSIVE Covers(_, _, _)
Covers(i, pos, words) ==
    IF i > Len(all_chunks) THEN pos = Len(words) + 1
    ELSE LET w == ChunkWords(i)
             maxK == IF i = 1 THEN 0
                     ELSE Min(config.overlap_tokens,
                              Min(Len(w), Len(ChunkWords(i - 1))))
         IN  \E k \in 0..maxK :
                /\ i > 1 => FirstWords(w, k) = LastWords(ChunkWords(i - 1), k)
                /\ pos + (Len(w) - k) - 1 <= Len(words)
                /\ SubSeq(w, k + 1, Len(w)) = SubSeq(words, pos, pos + (Len(w) - k) - 1)
                /\ Covers(i + 1, pos + (Len(w) - k), words)

\* C2: the words of the chunk texts in order, minus the words each chunk
\* repeats from its predecessor as overlap, are the words of the document's
\* blocks in block order
\* (stated for max_tokens >= 2, where no word is cut into characters)
C2_Coverage ==
    (pc = "chunked" /\ config.max_tokens >= 2) => Covers(1, 1, DocWords(doc))

\* C3: with overlap_tokens = V > 0, two consecutive chunks from the same
\* source block share V words: the last V of the earlier are the first V of
\* the later (stated for max_tokens >= 2)
C3_Overlap ==
    (pc = "chunked" /\ config.overlap_tokens > 0 /\ config.max_tokens >= 2) =>
        \A i \in 1..(Len(all_chunks) - 1) :
            SourceBlock(doc, all_chunks[i]) = SourceBlock(doc, all_chunks[i + 1]) =>
                LET V == config.overlap_tokens
                    a == ChunkWords(i)
                    b == ChunkWords(i + 1)
                IN  /\ Len(a) >= V
                    /\ Len(b) >= V
                    /\ LastWords(a, V) = FirstWords(b, V)

AtMostMaxTokens == \A i \in 1..Len(all_chunks) : Len(ChunkWords(i)) <= config.max_tokens

C5_TablesIntact ==
    (pc = "chunked" /\ config.keep_tables_intact /\ config.max_tokens >= 2) =>
        \A j \in 1..Len(doc.blocks) :
            (doc.blocks[j].type = TABLE /\ length_function(doc.blocks[j].text) >= 1) =>
                Cardinality({i \in 1..Len(all_chunks) :
                                SourceBlock(doc, all_chunks[i]) = j}) = 1

\* C12: a call of chunk_document with overlap_tokens >= max_tokens
\* (overlap_tokens = max_tokens included) raises a configuration error and
\* emits no chunk
C12_FailFast ==
    (pc \in {"chunked", "raised"} /\ config.overlap_tokens >= config.max_tokens) =>
        (pc = "raised" /\ all_chunks = <<>>)

C15_PrimitiveValues ==
    pc = "chunked" =>
        \A i \in 1..Len(all_chunks) :
            \A key \in DOMAIN all_chunks[i].metadata :
                all_chunks[i].metadata[key][1] \in {"str", "int"}

\* C17: the block_ids entry of every chunk is the block_id of a block of
\* doc.blocks, pre-split blocks included
C17_BlockIdsExist ==
    pc = "chunked" =>
        \A i \in 1..Len(all_chunks) :
            \E j \in 1..Len(doc.blocks) :
                all_chunks[i].metadata.block_ids[2] = doc.blocks[j].block_id

\* the line numbers of a block's lines
LineNumbers(block) == [k \in 1..Len(block.lines) |-> block.lines[k].line_number]

\* C18: a chunk whose source block has lines carries as line_start and
\* line_end the smallest and the largest line_number of those lines
C18_LineProvenance ==
    pc = "chunked" =>
        \A i \in 1..Len(all_chunks) :
            LET block == doc.blocks[SourceBlock(doc, all_chunks[i])]
            IN  block.lines # <<>> =>
                    /\ all_chunks[i].metadata.line_start = PyInt(MinOf(LineNumbers(block)))
                    /\ all_chunks[i].metadata.line_end = PyInt(MaxOf(LineNumbers(block)))

\* the chunk comes from a sub-block made by the pre-split of a block
FromSubBlock(d, chunk) ==
    chunk.metadata.block_ids[2] # d.blocks[SourceBlock(d, chunk)].block_id

\* C19: in every chunk page_start <= page_end and line_start <= line_end
\* where both are present, and a chunk from a pre-split sub-block has the
\* parent block's page_number as page_start and as page_end
C19_MetadataBounds ==
    pc = "chunked" =>
        \A i \in 1..Len(all_chunks) :
            LET m == all_chunks[i].metadata
            IN  /\ (m.page_start[1] = "int" /\ m.page_end[1] = "int") =>
                       m.page_start[2] <= m.page_end[2]
                /\ (m.line_start[1] = "int" /\ m.line_end[1] = "int") =>
                       m.line_start[2] <= m.line_end[2]
                /\ FromSubBlock(doc, all_chunks[i]) =>
                       /\ m.page_start = doc.blocks[SourceBlock(doc, all_chunks[i])].page_number
                       /\ m.page_end = doc.blocks[SourceBlock(doc, all_chunks[i])].page_number

\* a block on the second page of a PDF was pre-split, and a chunk of one of
\* its sub-blocks has page_start = page_end = 2
C19_Witness ==
    /\ pc = "chunked"
    /\ \E i \in 1..Len(all_chunks) :
          /\ FromSubBlock(doc, all_chunks[i])
          /\ all_chunks[i].metadata.page_start = PyInt(2)
          /\ all_chunks[i].metadata.page_end = PyInt(2)

(***************************************************************************)
(* Properties of build_citations                                           *)
(***************************************************************************)
\* C20: build_citations returns one citation per (chunk, distance) pair, the
\* i-th built from the i-th pair (its chunk id, its document, its text
\* preview); a chunk with no local path and no source URL yields a citation
\* with its text and metadata and no highlight_url
C20_OneCitationPerChunk ==
    pc = "cited" =>
        /\ Len(citations) = Len(chunks_with_scores)
        /\ \A i \in 1..Len(chunks_with_scores) :
              LET ch == chunks_with_scores[i][1]
              IN  /\ citations[i].chunk_id = PyStr(ch.chunk_id)
                  /\ citations[i].doc_id = ch.metadata.doc_id[2]
                  /\ citations[i].text = PyStr(SubSeq(ch.text, 1, Min(500, Len(ch.text))))
                  /\ (ch.metadata.local_path = PyStr(<<>>)
                         /\ ch.metadata.source_url = PyStr(<<>>)) =>
                        /\ citations[i].highlight_url = PyNone
                        /\ citations[i].ticker = ch.metadata.ticker[2]
                        /\ citations[i].period = ch.metadata.period[2]
                        /\ citations[i].filing_type = ch.metadata.filing_type[2]

\* citations were built for two or more chunks of a document without local
\* path and source URL, the nearest of them not the document's first chunk
C20_Witness ==
    /\ pc = "cited"
    /\ Len(citations) >= 2
    /\ chunks_with_scores[1][1].chunk_id # all_chunks[1].chunk_id
    /\ chunks_with_scores[1][1].metadata.local_path = PyStr(<<>>)
    /\ chunks_with_scores[1][1].metadata.source_url = PyStr(<<>>)
    /\ citations[1].highlight_url = PyNone
    /\ citations[1].text # PyNone

(***************************************************************************)
(* Properties of the indexing runs and of retrieval                        *)
(***************************************************************************)
StoreRows(collection) == {collection[i] : i \in 1..Len(collection)}

ChunkIds(chunks) == {chunks[k].chunk_id : k \in 1..Len(chunks)}

\* C6: when a run of index_documents has raised, on whichever batch, the
\* store holds what it held before the run started
C6_AllOrNothing ==
    \A p \in Procs :
        run[p].pc = "raised" =>
            /\ StoreRows(store) = StoreRows(run[p].store0)
            /\ Len(store) = Len(run[p].store0)

\* C7: a run of index_documents that returns normally, on the documents the
\* previous run indexed, leaves in the store the ids, texts and metadata that
\* run left (the store as this run found it), and as many rows
C7_Idempotent ==
    (run[1].pc = "done" /\ prev # <<>> /\ prev = run[1].documents) =>
        /\ StoreRows(store) = StoreRows(run[1].store0)
        /\ Len(store) = Len(run[1].store0)

C7_Witness ==
    /\ run[1].pc = "done"
    /\ prev # <<>>
    /\ prev = run[1].documents
    /\ Len(run[1].chunks) > batch_size
    /\ ChunkIds(run[1].chunks) = {store[i].id : i \in 1..Len(store)}

\* C8: within one run, two chunks built from different source files (their
\* local_path differs) never have the same chunk_id
C8_NoCollision ==
    \A p \in Procs :
        \A i, j \in 1..Len(run[p].chunks) :
            run[p].chunks[i].metadata.local_path # run[p].chunks[j].metadata.local_path
                => run[p].chunks[i].chunk_id # run[p].chunks[j].chunk_id

\* index_documents when no call fails: the batches upserted in order
RECURSIVE index_documents(_, _, _)
index_documents(collection, chunks, i) ==
    IF i >= Len(chunks) THEN collection
    ELSE index_documents(upsert(collection, Batch(chunks, i)), chunks, i + batch_size)

\* C9: the runs are not isolated from each other: each batch upsert of a
\* run overwrites, for the ids of that batch, whatever the store holds (the
\* other run's rows included) and leaves every other row as it is, so the
\* rows of a doc_id are those of whichever run wrote each batch last
C9_LastWriterWins ==
    [][\A p \in Procs :
          (run[p].pc = "upsert" /\ run'[p].pc \in {"embed", "done"}) =>
              LET batch == Batch(run[p].chunks, run[p].i)
              IN  /\ \A k \in 1..Len(batch) : Row(batch[k]) \in StoreRows(store')
                  /\ \A i \in 1..Len(store) :
                        store[i].id \notin ChunkIds(batch) => store[i] \in StoreRows(store')
                  /\ Len(store') = Cardinality(ChunkIds(batch)
                                      \cup {store[i].id : i \in 1..Len(store)})]_vars

\* both runs have gone through all their batches, for the same chunk ids and
\* different contents, and the store holds rows of each: neither what run 1
\* then run 2 leaves nor what run 2 then run 1 leaves
C9_Witness ==
    /\ run[1].pc = "done" /\ run[2].pc = "done"
    /\ ChunkIds(run[1].chunks) = ChunkIds(run[2].chunks)
    /\ \E i \in 1..Len(store) :
          /\ store[i] \in {Row(run[1].chunks[k]) : k \in 1..Len(run[1].chunks)}
          /\ store[i] \notin {Row(run[2].chunks[k]) : k \in 1..Len(run[2].chunks)}
    /\ \E i \in 1..Len(store) :
          /\ store[i] \in {Row(run[2].chunks[k]) : k \in 1..Len(run[2].chunks)}
          /\ store[i] \notin {Row(run[1].chunks[k]) : k \in 1..Len(run[1].chunks)}
    /\ StoreRows(store) #
          StoreRows(index_documents(index_documents(<<>>, run[1].chunks, 0), run[2].chunks, 0))
    /\ StoreRows(store) #
          StoreRows(index_documents(index_documents(<<>>, run[2].chunks, 0), run[1].chunks, 0))

\* a and b are the same string up to the case of their ASCII letters
SameIgnoringCase(a, b) ==
    /\ Len(a) = Len(b)
    /\ \A i \in 1..Len(a) :
          \/ a[i] = b[i]
          \/ a[i] \in 65..90 /\ b[i] = a[i] + 32
          \/ a[i] \in 97..122 /\ b[i] = a[i] - 32

\* C10: a chunk stores its document's ticker in lower case, and a request
\* for a ticker in any casing admits every stored chunk of that ticker (of
\* the requested period, when one is requested)
C10_TickerRoundTrip ==
    /\ \A p \in Procs : \A k \in 1..Len(run[p].chunks) : \A d \in 1..Len(run[p].documents) :
          LET ch == run[p].chunks[k]
              document == run[p].documents[d]
          IN  ch.metadata.doc_id = PyStr(document.metadata.doc_id) =>
                  /\ SameIgnoringCase(ch.metadata.ticker[2], document.metadata.ticker)
                  /\ \A i \in 1..Len(ch.metadata.ticker[2]) :
                        ch.metadata.ticker[2][i] \notin 65..90
    /\ (query # NoQuery /\ query.tickers # PyNone) =>
          \A i \in 1..Len(store) :
              ( /\ \E k \in 1..Len(query.tickers[2]) :
                      SameIgnoringCase(query.tickers[2][k], store[i].metadata.ticker[2])
                /\ query.period \in {PyNone, store[i].metadata.period} )
              => store[i].id \in query.candidates

\* a chunk indexed under the ticker "aB" is admitted by a request for "Ab"
C10_Witness ==
    /\ query # NoQuery
    /\ query.tickers = PyList(<<<<65, 98>>>>)
    /\ \E i \in 1..Len(store) :
          /\ IsPrefix(<<97, 66, UNDERSCORE>>, store[i].id)
          /\ store[i].id \in query.candidates

\* the block of a run's documents a chunk of the run was built from
RunBlock(p, ch) ==
    LET d == CHOOSE k \in 1..Len(run[p].documents) :
                 /\ PyStr(run[p].documents[k].metadata.doc_id) = ch.metadata.doc_id
                 /\ run[p].documents[k].metadata.local_path = ch.metadata.local_path
    IN  run[p].documents[d].blocks[SourceBlock(run[p].documents[d], ch)]

\* C16: through parse, tag_sections and chunk_document, the metadata of a
\* chunk whose source block was given a section by tag_sections has a
\* section entry equal to it
C16_SectionPropagated ==
    \A p \in Procs :
        \A k \in 1..Len(run[p].chunks) :
            LET ch == run[p].chunks[k]
            IN  RunBlock(p, ch).section # PyNone =>
                    /\ "section" \in DOMAIN ch.metadata
                    /\ ch.metadata["section"] = RunBlock(p, ch).section

\* the request names at least one ticker / names a period (None, [] and ""
\* name none)
HasTickers == query.tickers # PyNone /\ Len(query.tickers[2]) > 0
HasPeriod == query.period # PyNone /\ Len(query.period[2]) > 0

\* c is the condition "ticker is one of the requested tickers, lowercased"
IsTickerCondition(c) ==
    /\ Len(c) = 3 /\ c[1] = "$in" /\ c[2] = "ticker"
    /\ Len(c[3]) = Len(query.tickers[2])
    /\ \A k \in 1..Len(c[3]) : c[3][k] = PyStr(str_lower(query.tickers[2][k]))

\* c is the condition "period equals the requested period"
IsPeriodCondition(c) ==
    Len(c) = 3 /\ c[1] = "$eq" /\ c[2] = "period" /\ c[3] = query.period

\* C11: the filter Retriever.retrieve passes to the store is, for a request
\* with tickers and a period, an $and of exactly the ticker condition and the
\* period condition; with only one of the two, that condition bare; with
\* neither, the empty filter; an $and never has fewer than two operands
C11_FilterComposition ==
    query # NoQuery =>
        /\ (HasTickers /\ HasPeriod) =>
              /\ Len(query.where) = 2 /\ query.where[1] = "$and"
              /\ Len(query.where[2]) = 2
              /\ IsTickerCondition(query.where[2][1])
              /\ IsPeriodCondition(query.where[2][2])
        /\ (HasTickers /\ ~HasPeriod) => IsTickerCondition(query.where)
        /\ (~HasTickers /\ HasPeriod) => IsPeriodCondition(query.where)
        /\ (~HasTickers /\ ~HasPeriod) => (Len(query.where) = 1 /\ query.where[1] = "{}")
        /\ query.where[1] = "$and" => Len(query.where[2]) >= 2

\* a request with a ticker and a period is served with an $and filter that
\* admits stored chunks
C11_Witness ==
    /\ query # NoQuery
    /\ HasTickers /\ HasPeriod
    /\ query.where[1] = "$and"
    /\ query.candidates # {}

(***************************************************************************)
(* Citations built from stored metadata                                    *)
(***************************************************************************)
\* the metadata of the k-th chunk build_citations was called on
CitedMeta(k) == chunks_with_scores[k][1].metadata

\* v is absent or a positive integer
AbsentOrPositive(v) == v[1] = "None" \/ (v[1] = "int" /\ v[2] > 0)

\* C21: whatever is stored under line_start and line_end, the citation's
\* line_start and line_end are each absent or a positive integer
C21_LineBounds ==
    pc = "cited" =>
        \A k \in 1..Len(citations) :
            /\ AbsentOrPositive(citations[k].line_start)
            /\ AbsentOrPositive(citations[k].line_end)

\* the stored values that denote an integer > 0, and the integer: the int 3,
\* the strings "7" and " 5"
DenotesPositive(v) ==
    \/ v[1] = "int" /\ v[2] > 0
    \/ v[1] = "str" /\ v[2] \in {<<55>>, <<SPACE, 53>>}
Denoted(v) == IF v[1] = "int" THEN v[2] ELSE IF v[2] = <<55>> THEN 7 ELSE 5

\* C22: whatever is stored under page_start, build_citations returns, the
\* citation's page is absent or an integer > 0, and it is present exactly
\* when the stored value denotes an integer > 0 (and is then that integer)
C22_PageValidated ==
    pc = "cited" =>
        /\ Len(citations) = Len(chunks_with_scores)
        /\ \A k \in 1..Len(citations) :
              LET stored == CitedMeta(k)["page_start"]
                  page == citations[k].page
              IN  /\ AbsentOrPositive(page)
                  /\ page[1] = "int" <=> DenotesPositive(stored)
                  /\ page[1] = "int" => page[2] = Denoted(stored)

\* citations were built for a page stored as the string "7", which is cited
\* as the integer 7
C22_Witness ==
    /\ pc = "cited"
    /\ CitedMeta(1)["page_start"] = PyStr(<<55>>)
    /\ citations[1].page = PyInt(7)

\* t ends in ".pdf", in any case
EndsInPdf(t) ==
    /\ Len(t) >= 4
    /\ t[Len(t) - 3] = DOT
    /\ t[Len(t) - 2] \in {112, 80}
    /\ t[Len(t) - 1] \in {100, 68}
    /\ t[Len(t)] \in {102, 70}

VIEWER_A_B == <<47, 100, 111, 99, 117, 109, 101, 110, 116, 115, 47>> \o DOC_ID
              \o <<47, 99, 104, 117, 110, 107, 115, 47>> \o DOC_ID \o CHUNK_TAG \o <<49>>
              \o <<47, 118, 105, 101, 119, 101, 114>>
                                             \* "/documents/A_Q1_r/chunks/A_Q1_r_chunk_1/viewer"
SEARCH_A_B == <<115, 101, 97, 114, 99, 104, 61, 97, 37, 50, 48, 98>>     \* "search=a%20b"
PAGE_EQ == <<112, 97, 103, 101, 61>>                                     \* "page="

\* C23: the locator is the viewer path whenever a local path is stored;
\* otherwise, for a source URL ending in .pdf (any case), the URL followed by
\* "#" or "&" and a fragment with the search phrase, after the page when one
\* is stored; otherwise the bare source URL; otherwise there is none
C23_LocatorPreference ==
    pc = "cited" =>
        \A k \in 1..Len(citations) :
            LET local_path == CitedMeta(k)["local_path"][2]
                source_url == CitedMeta(k)["source_url"][2]
                page == CitedMeta(k)["page_start"]
                paged == page[1] # "None" /\ page # PyInt(0) /\ page # PyStr(<<>>)
                locator == citations[k].highlight_url
            IN  IF local_path # <<>> THEN locator = PyStr(VIEWER_A_B)
                ELSE IF EndsInPdf(source_url)
                THEN /\ locator[1] = "str"
                     /\ IsPrefix(source_url, locator[2])
                     /\ LET fragment == SubSeq(locator[2], Len(source_url) + 1, Len(locator[2]))
                        IN  /\ Len(fragment) > Len(SEARCH_A_B)
                            /\ fragment[1] \in {35, 38}
                            /\ SubSeq(fragment, Len(fragment) - Len(SEARCH_A_B) + 1, Len(fragment))
                                  = SEARCH_A_B
                            /\ paged <=> IsPrefix(PAGE_EQ, Tail(fragment))
                ELSE IF source_url # <<>> THEN locator = PyStr(source_url)
                ELSE locator[1] = "None"

\* citations were built for a chunk that records both a local path and a
\* source URL ending in .pdf, and the locator is the viewer path
C23_Witness ==
    /\ pc = "cited"
    /\ CitedMeta(1)["local_path"] = PyStr(LOCAL_PATH)
    /\ CitedMeta(1)["source_url"] = PyStr(<<117, 46, 112, 100, 102>>)
    /\ citations[1].highlight_url = PyStr(VIEWER_A_B)

(***************************************************************************)
(* Chat requests, and the documents a run loads                            *)
(***************************************************************************)
\* RAGService.answer has been called and the response is not yet delivered
Answered == query # NoQuery /\ "response" \in DOMAIN query

\* C24: when the retrieval returns no chunk, RAGService.answer does not
\* raise and does not call the chat model, and its response has an
\* availability message as answer, no citation and no raw context
C24_EmptyRetrieval ==
    (Answered /\ query.results = <<>>) =>
        /\ ~query.raised
        /\ query.chat_calls = 0
        /\ "answer" \in DOMAIN query.response
        /\ query.response.answer.kind \in
              {"no data available yet", "no data for that query", "no data for ticker",
               "no data for ticker in period", "no relevant data"}
        /\ query.response.citations = <<>>
        /\ query.response.raw_context = PyNone

\* a request for ticker "ab" in a period it has no data for is answered from
\* a store that holds chunks of "ab": the message lists what is available
C24_Witness ==
    /\ Answered
    /\ store # <<>>
    /\ query.results = <<>>
    /\ query.tickers = PyList(<<<<97, 98>>>>)
    /\ query.response.answer.kind = "no data for ticker in period"
    /\ query.response.answer.available # {}

\* the period a file is loaded with: the period argument, or else the one
\* its name gives (None when it gives none)
FilePeriod(file, period) ==
    IF Truthy(period) THEN period ELSE extract_period_from_filename(file.name)

\* the files of the directory that have a period and can be parsed, the PDF
\* files before the HTML files
LoadableFiles(period) ==
    LET loadable(kind) ==
            SelectSeq(raw_dir.files,
                      LAMBDA f : /\ path_suffix(f.name) = <<DOT>> \o kind
                                 /\ FilePeriod(f, period) # PyNone
                                 /\ f.readable)
    IN  loadable(PDF) \o loadable(HTML)

\* C27: the documents of a run are exactly one per file of the directory
\* that had a period and was parsed without error, whether or not a file
\* before it failed to parse
C27_ParseFailuresSkipped ==
    run[1].pc # "idle" =>
        \E period \in Periods :
            LET files == LoadableFiles(period)
                documents == run[1].documents
            IN  /\ Len(documents) = Len(files)
                /\ \A k \in 1..Len(files) :
                      /\ documents[k].metadata.title = PyStr(path_stem(files[k].name))
                      /\ documents[k].metadata.period = FilePeriod(files[k], period)[2]

\* a run was started with period "Q1-2025" on the directory whose first PDF
\* file and first HTML file cannot be parsed: it got the documents of the
\* second PDF file and of the second HTML file
C27_Witness ==
    /\ run[1].pc # "idle"
    /\ Len(raw_dir.files) = 4
    /\ ~raw_dir.files[1].readable /\ ~raw_dir.files[3].readable
    /\ Len(run[1].documents) = 2
    /\ run[1].documents[1].metadata.title = PyStr(path_stem(REPORT_PDF))
    /\ run[1].documents[2].metadata.title = PyStr(path_stem(REPORT_FY_HTML))
    /\ run[1].documents[2].metadata.period = Q1_2025

(***************************************************************************)
(* Rows left by earlier runs                                               *)
(***************************************************************************)
\* the rows a collection holds for a doc_id, and the id of its n-th chunk
RowsOf(collection, doc_id) ==
    {row \in StoreRows(collection) : row.metadata["doc_id"] = PyStr(doc_id)}
ChunkIdOf(doc_id, n) == doc_id \o CHUNK_TAG \o str_int(n)

\* the doc_ids of the chunks of the run, and the chunks of the run for one
RunDocIds == {run[1].chunks[k].metadata["doc_id"][2] : k \in 1..Len(run[1].chunks)}
RunChunksOf(doc_id) ==
    SelectSeq(run[1].chunks, LAMBDA ch : ch.metadata["doc_id"] = PyStr(doc_id))

\* C29: the ids stored for a doc_id are always doc_id_chunk_1 ..
\* doc_id_chunk_M, and a run that went through (n chunks for the doc_id, K
\* rows held for it when the run started) leaves M = max(K, n) rows: the rows
\* 1 .. n hold the chunks of this run and the rows n+1 .. K are the rows the
\* store held before, so that M is the largest chunk count of the runs so far
C29_UpsertNeverDeletes ==
    /\ \A row \in StoreRows(store) :
          LET doc_id == row.metadata["doc_id"][2]
          IN  {r.id : r \in RowsOf(store, doc_id)}
                = {ChunkIdOf(doc_id, n) : n \in 1..Cardinality(RowsOf(store, doc_id))}
    /\ run[1].pc = "done" =>
          \A doc_id \in RunDocIds :
              LET chunks == RunChunksOf(doc_id)
                  n == Len(chunks)
                  K == Cardinality(RowsOf(run[1].store0, doc_id))
              IN  /\ Cardinality(RowsOf(store, doc_id)) = Max(K, n)
                  /\ \A j \in 1..n :
                        /\ chunks[j].chunk_id = ChunkIdOf(doc_id, j)
                        /\ Row(chunks[j]) \in StoreRows(store)
                  /\ \A row \in RowsOf(run[1].store0, doc_id) :
                        row.id \notin ChunkIds(chunks) => row \in StoreRows(store)

\* a run of one chunk has gone through for a doc_id the store held three
\* rows for: the rows of chunk_2 and chunk_3 are still there, with the text
\* of the earlier version
C29_Witness ==
    /\ run[1].pc = "done"
    /\ \E doc_id \in RunDocIds :
          /\ Len(RunChunksOf(doc_id)) = 1
          /\ Cardinality(RowsOf(store, doc_id)) = 3
          /\ \E row \in RowsOf(store, doc_id) :
                /\ row.id = ChunkIdOf(doc_id, 3)
                /\ row.document = TextSales
                /\ RunChunksOf(doc_id)[1].text = TextA

(***************************************************************************)
(* Properties of _split_large_blocks                                       *)
(***************************************************************************)
\* the words of the j-th block passed to _split_large_blocks
BlockWords(j) == str_split(split_call.blocks[j].text)

\* how many blocks the j-th block is to be replaced by: itself, or
\* ceil(W / max_block_tokens) sub-blocks
Pieces(j) ==
    LET W == Len(BlockWords(j))
        B == split_call.max_block_tokens
    IN  IF W <= B THEN 1 ELSE (W + B - 1) \div B

\* how many blocks of the result come before those of the j-th block
RECURSIVE PiecesBefore(_)
PiecesBefore(j) == IF j = 1 THEN 0 ELSE PiecesBefore(j - 1) + Pieces(j - 1)

\* C25: for max_block_tokens = B >= 1 the result holds, block after block
\* in the order of the argument, either the block itself (at most B words)
\* or ceil(W / B) sub-blocks with ids <block_id>_split_0, _split_1, ..., each
\* of at most B words, whose words in order are the words of the block; it is
\* what the pre-split of chunk_document computes
C25_OversizedBlocksSplit ==
    (split_call.pc = "returned" /\ split_call.max_block_tokens >= 1) =>
        LET blocks == split_call.blocks
            B == split_call.max_block_tokens
            new_blocks == split_call.new_blocks
            last == Len(blocks)
        IN  /\ Len(new_blocks) = PiecesBefore(last) + Pieces(last)
            /\ new_blocks = _split_large_blocks(blocks, B)
            /\ \A j \in 1..last :
                  LET sub(k) == new_blocks[PiecesBefore(j) + k + 1]
                      sub_words == [k \in 1..Pieces(j) |-> str_split(sub(k - 1).text)]
                  IN  IF Len(BlockWords(j)) <= B THEN sub(0) = blocks[j]
                      ELSE /\ \A k \in 0..(Pieces(j) - 1) :
                                /\ sub(k).block_id
                                      = blocks[j].block_id \o SPLIT_TAG \o str_int(k)
                                /\ Len(str_split(sub(k).text)) \in 1..B
                           /\ Concat(sub_words, 1, Pieces(j)) = BlockWords(j)

\* a block of five words was split for max_block_tokens = 2 into three
\* sub-blocks, the last of one word, and the block after it was passed through
C25_Witness ==
    /\ split_call.pc = "returned"
    /\ split_call.max_block_tokens = 2
    /\ Len(split_call.blocks) = 2
    /\ Len(BlockWords(1)) = 5 /\ Len(BlockWords(2)) = 2
    /\ Len(split_call.new_blocks) = 4
    /\ Len(str_split(split_call.new_blocks[3].text)) = 1
    /\ split_call.new_blocks[4] = split_call.blocks[2]

\* C28: every pass through the body of the oversized-block loop leaves
\* start_idx larger than it was, whatever max_block_tokens is
C28_LoopAdvances ==
    [][(split_call.pc = "while" /\ split_call'.pc = "while") =>
          split_call'.start_idx > split_call.start_idx]_vars

(***************************************************************************)
(* The batches of a run                                                    *)
(***************************************************************************)
\* C26: when a run has gone through all its n chunks, its calls were, for
\* j = 1 .. ceil(n / 64) in this order, embed_texts on the texts of the
\* chunks 64 (j - 1) + 1 .. min(64 j, n) and then upsert of those same
\* chunks, and no other
C26_BatchProtocol ==
    (run[1].pc = "done" /\ run[1].chunks # <<>>) =>
        LET chunks == run[1].chunks
            n == Len(chunks)
            calls == run[1].calls
            batches == (n + 63) \div 64
        IN  /\ Len(calls) = 2 * batches
            /\ \A j \in 1..batches :
                  LET lo == 64 * (j - 1) + 1
                      hi == IF 64 * j < n THEN 64 * j ELSE n
                  IN  /\ calls[2 * j - 1].op = "embed_texts"
                      /\ calls[2 * j - 1].texts = [k \in 1..(hi - lo + 1) |-> chunks[lo + k - 1].text]
                      /\ calls[2 * j].op = "upsert"
                      /\ calls[2 * j].ids = [k \in 1..(hi - lo + 1) |-> chunks[lo + k - 1].chunk_id]

\* a run of 65 chunks has gone through: a batch of 64 and a batch of one
C26_Witness ==
    /\ run[1].pc = "done"
    /\ Len(run[1].chunks) = 65
    /\ Len(run[1].calls) = 4
    /\ Len(run[1].calls[2].ids) = 64
    /\ run[1].calls[4].ids = <<run[1].chunks[65].chunk_id>>

(***************************************************************************)
(* Blocks that need no second split                                        *)
(***************************************************************************)
\* C30: with max_block_tokens = B <= max_tokens, a block of W >= 1 words
\* yields ceil(W / B) chunks, and the words of the chunks in order are the
\* words of the document (no word is in two chunks)
C30_OneChunkPerSubBlock ==
    (pc = "chunked" /\ config.max_block_tokens <= config.max_tokens) =>
        /\ \A j \in 1..Len(doc.blocks) :
              LET W == Len(str_split(doc.blocks[j].text))
                  B == config.max_block_tokens
              IN  W >= 1 =>
                    Cardinality({i \in 1..Len(all_chunks) : SourceBlock(doc, all_chunks[i]) = j})
                      = (W + B - 1) \div B
        /\ LET w == [i \in 1..Len(all_chunks) |-> ChunkWords(i)]
           IN  Concat(w, 1, Len(w)) = DocWords(doc)
====
